---- MODULE Spec2Model ----
(***************************************************************************)
(* Process supervision of pleasure-js/forker (the "daemonizer").           *)
(*                                                                         *)
(* RunningProcess (src/unnamed/part_003) owns one OS child process and     *)
(* restarts it; DaemonizerServer (src/src/lib/daemonizer-server.js, the    *)
(* class that starts at line 278) keeps the registry _runningProcesses     *)
(* and answers fork / stop requests.                                       *)
(*                                                                         *)
(* The daemon runs one event loop: every handler below is one atomic       *)
(* action.  The OS children run in parallel with it, so the death of a     *)
(* child (ChildDie) and the delivery of its 'exit' event to the daemon     *)
(* (ChildExitEvent) are two steps.  `await kill(pid)` splits stop() in     *)
(* two: the part before the await (in stop) and the continuation           *)
(* (KillDone), or the rejection (KillFail).                                *)
(***************************************************************************)
EXTENDS Integers, Sequences, FiniteSets, TLC

\* ------------------------------------------------------------------ bounds

\* RunningProcess objects created over a run.
MaxRecords == 2

\* OS children, over all records, that terminate on their own.
MaxDeaths == 2

\* Requests the 'exec' handler receives over a run.
MaxRequests == 3

\* Calls a client makes in the behaviours checked for liveness.
MaxFairCalls == 2

\* Process ids of the OS: 1..MaxPid.
MaxPid == 3

\* Calls of isRunning.
MaxProbes == 2

\* Synchronous-wait fork requests.
MaxWaits == 1

\* Stdout chunks the children write.
MaxChunks == 2

\* Calls made through one Daemonizer facade.
MaxFacadeCalls == 2

\* ------------------------------------------------------------------ inputs

\* `undefined` passed as an id (falsy).
NoId == ""

\* uuid() results: fresh strings, one per object created, never equal to an
\* explicit id.
UuidPool == <<"u1", "u2", "u3", "u4", "u5", "u6">>

uuid(n) == UuidPool[n]

\* Explicit ids callers use.
Ids == {"a", "ghost"}

\* runningProcessOptions as given by a caller: has* says whether the key is
\* present in the object.
Opt(hasAR, ar, hasMax, max) ==
  [hasAutoRestart |-> hasAR, autoRestart |-> ar,
   hasMaximumAutoRestart |-> hasMax, maximumAutoRestart |-> max]

NoOptions == Opt(FALSE, TRUE, FALSE, 0)

\* The fork payloads the callers send: {id, spawnArgs: {command}, runningProcessOptions}.
ForkRequests ==
  { [id |-> "a",  command |-> "c1", options |-> Opt(FALSE, TRUE, TRUE, 0)],
    [id |-> "a",  command |-> "c2", options |-> Opt(TRUE, FALSE, FALSE, 0)],
    [id |-> NoId, command |-> "c1", options |-> Opt(FALSE, TRUE, TRUE, 1)] }

\* A fork payload without runningProcessOptions.
DefaultRequest == [id |-> "a", command |-> "c1", options |-> NoOptions]

\* ------------------------------------------------------------------- state

VARIABLES
  rp,                \* every RunningProcess object created so far, by creation order
  runningProcesses,  \* DaemonizerServer._runningProcesses: sequence of indices into rp
  config,            \* DaemonizerServer.config
  closeTimers,       \* grace timers of _exit that are pending
  closeChecks,       \* grace timers of _exit that have fired
  exited,            \* process.exit(0) was called: the daemon is gone
  rpc,               \* the generic envelope: see InitRpcState
  client,            \* the RemoteClient and its channel: see InitClientState
  marker             \* the singleton marker and the pids of the OS: see InitMarkerState

\* The variables of the supervisor.
serverVars ==
  <<rp, runningProcesses, config, closeTimers, closeChecks, exited, rpc>>

vars == <<serverVars, client, marker>>

\* The part of the state the handlers of the daemon transform.
State ==
  [rp |-> rp, reg |-> runningProcesses, config |-> config,
   closeTimers |-> closeTimers, closeChecks |-> closeChecks, exited |-> exited,
   rpc |-> rpc]

\* --------------------------------------------------------- RunningProcess

\* defaultOptions: maximumAutoRestart is not among them.
defaultOptions == [autoRestart |-> TRUE, waitBeforeRestart |-> 1000]

\* this._options = Object.assign({}, defaultOptions, options)
AssignOptions(options) ==
  [autoRestart |-> IF options.hasAutoRestart THEN options.autoRestart
                   ELSE defaultOptions.autoRestart,
   waitBeforeRestart |-> defaultOptions.waitBeforeRestart,
   hasMaximumAutoRestart |-> options.hasMaximumAutoRestart,
   maximumAutoRestart |-> options.maximumAutoRestart]

\* get pid (): the pid of the handle, or null/undefined (falsy) when there is
\* no handle or the handle never got a pid (spawn failed).
pid(p) == p.spawnChild = "pid"

\* The listeners DaemonizerServer.fork attaches to a record.
ForwardingListeners == {"output", "error-output", "exit"}

\* start(): no-op once stopped or while a handle exists; otherwise spawn().
\* ok = FALSE is an OS launch failure: the handle has no pid, the child emits
\* 'error' (handled by an empty listener) and never 'exit'.
\* (variant: the check of the stop flag is missing)
start_noStopGuard(p, ok) ==
  IF p.spawnChild # "null" THEN p
  ELSE [p EXCEPT !.spawnChild = IF ok THEN "pid" ELSE "nopid",
                 !.os = IF ok THEN "alive" ELSE @,
                 !.live = IF ok THEN @ + 1 ELSE @,
                 !.spawnCalls = @ + 1]

\* (variant: a launch that fails arms the restart timer)
start_failureRestarts(p, ok) ==
  IF p.stop THEN p
  ELSE IF p.spawnChild # "null" THEN p
  ELSE [p EXCEPT !.spawnChild = IF ok THEN "pid" ELSE "nopid",
                 !.os = IF ok THEN "alive" ELSE @,
                 !.live = IF ok THEN @ + 1 ELSE @,
                 !.timers = IF ok THEN @ ELSE @ + 1,
                 !.spawnCalls = @ + 1]

start(p, ok) ==
  IF p.stop THEN p
  ELSE IF p.spawnChild # "null" THEN p
  ELSE [p EXCEPT !.spawnChild = IF ok THEN "pid" ELSE "nopid",
                 !.os = IF ok THEN "alive" ELSE @,
                 !.live = IF ok THEN @ + 1 ELSE @,
                 !.spawnCalls = @ + 1]

\* constructor (id, spawnArgs, options): n is the number of the object.
\* Beside the fields of the class (id, spawnArgs, spawnChild, options,
\* restarts = _restarts.length, stop, listeners) a record carries
\*   os           the handle's OS process: "none", "alive", "dead" (terminated,
\*                'exit' not yet delivered), "reaped" ('exit' delivered)
\*   live         OS processes of the record that are running
\*   timers       restart timers pending
\*   kill         the kill(pid) of stop(): "none", "pending", "resolved", "rejected"
\* and counts of what happened to it: spawnCalls (calls of spawn), died
\* (children that terminated on their own), exits ('exit' events of children
\* handled), killRequests (calls of kill), exitEmitted ('exit' emitted by the
\* record), exitHandled (runs of onExit), removed (splices out of the
\* registry), doneEmitted ('done' emitted), and stopCalled (stop() was called
\* on it).
NewRunningProcess(id, command, options, n, ok) ==
  start([id |-> IF id = NoId THEN uuid(n) ELSE id,
         spawnArgs |-> command,
         spawnChild |-> "null",
         options |-> AssignOptions(options),
         restarts |-> 0,
         stop |-> FALSE,
         stopCalled |-> FALSE,
         os |-> "none",
         live |-> 0,
         spawnCalls |-> 0,
         died |-> 0,
         exits |-> 0,
         timers |-> 0,
         kill |-> "none",
         killRequests |-> 0,
         exitEmitted |-> 0,
         exitHandled |-> 0,
         removed |-> 0,
         doneEmitted |-> 0,
         listeners |-> {}], ok)

\* ------------------------------------------------------- DaemonizerServer

\* Array.indexOf
RECURSIVE indexOfFrom(_, _, _)
indexOfFrom(seq, x, i) ==
  IF i > Len(seq) THEN 0
  ELSE IF seq[i] = x THEN i
  ELSE indexOfFrom(seq, x, i + 1)

indexOf(seq, x) == indexOfFrom(seq, x, 1)

\* Array.splice(i, 1)
splice(seq, i) == SubSeq(seq, 1, i - 1) \o SubSeq(seq, i + 1, Len(seq))

\* findProcessById: the last record of the registry whose id === key; none
\* (0) for a falsy key.  A key is a string, or an object such as {id: "a"},
\* which is === to no string.
StrKey(id) == [shape |-> "string", id |-> id]
ObjKey(id) == [shape |-> "object", id |-> id]

\* (variant: the lookup runs over every object created, registered or not)
findProcessById_anyRecord(S, key) ==
  LET hits == {i \in 1..Len(S.rp) :
                 key.shape = "string" /\ S.rp[i].id = key.id}
  IN IF key.shape = "string" /\ key.id = NoId THEN 0
     ELSE IF hits = {} THEN 0
     ELSE CHOOSE i \in hits : \A j \in hits : j <= i

\* (variant: records that are already stopped are passed over)
findProcessById_skipStopped(S, key) ==
  LET hits == {i \in 1..Len(S.reg) :
                 /\ key.shape = "string"
                 /\ S.rp[S.reg[i]].id = key.id
                 /\ ~S.rp[S.reg[i]].stop}
  IN IF key.shape = "string" /\ key.id = NoId THEN 0
     ELSE IF hits = {} THEN 0
     ELSE S.reg[CHOOSE i \in hits : \A j \in hits : j <= i]

findProcessById(S, key) ==
  LET hits == {i \in 1..Len(S.reg) :
                 key.shape = "string" /\ S.rp[S.reg[i]].id = key.id}
  IN IF key.shape = "string" /\ key.id = NoId THEN 0
     ELSE IF hits = {} THEN 0
     ELSE S.reg[CHOOSE i \in hits : \A j \in hits : j <= i]

\* `${ id }` in a template literal.
TemplateString(key) == IF key.shape = "string" THEN key.id ELSE "[object Object]"

\* The callback of the grace timer of _exit: process.exit(0) when the
\* registry is empty at that moment.
\* (variant: the registry is not looked at again)
closeTimerFired_noRecheck(S) ==
  [S EXCEPT !.closeTimers = @ - 1, !.closeChecks = @ + 1, !.exited = TRUE]

closeTimerFired(S) ==
  LET S1 == [S EXCEPT !.closeTimers = @ - 1, !.closeChecks = @ + 1]
  IN IF Len(S1.reg) = 0 THEN [S1 EXCEPT !.exited = TRUE] ELSE S1

\* The end of _exit: with config.autoClose and an empty registry, set the
\* grace timer.
scheduleClose(S) ==
  IF S.config.autoClose /\ Len(S.reg) = 0
  THEN [S EXCEPT !.closeTimers = @ + 1]
  ELSE S

\* _exit(runningProcess): splice the record out of the registry.
\* (variant: the index is taken one too low, as from a 0-based indexOf)
_exit_wrongIndex(S, r) ==
  LET i == indexOf(S.reg, r) - 1
  IN scheduleClose(IF i >= 0
                   THEN [S EXCEPT !.reg = splice(S.reg, i),
                                  !.rp[r].removed = @ + 1]
                   ELSE S)

\* (variant: the first record of the registry is spliced out)
_exit_first(S, r) ==
  LET i == indexOf(S.reg, r)
  IN scheduleClose(IF i >= 1
                   THEN [S EXCEPT !.reg = splice(S.reg, 1),
                                  !.rp[r].removed = @ + 1]
                   ELSE S)

_exit(S, r) ==
  LET i == indexOf(S.reg, r)
  IN scheduleClose(IF i >= 1
                   THEN [S EXCEPT !.reg = splice(S.reg, i),
                                  !.rp[r].removed = @ + 1]
                   ELSE S)

\* onExit, the 'exit' listener of fork: drop the three forwarding listeners,
\* then _exit.
onExit(S, r) ==
  _exit([S EXCEPT !.rp[r].listeners = @ \ ForwardingListeners,
                  !.rp[r].exitHandled = @ + 1], r)

\* this.emit('exit'); this.removeAllListeners()   (the end of stop())
EmitExit(S, r) ==
  LET S1 == [S EXCEPT !.rp[r].exitEmitted = @ + 1]
      S2 == IF "exit" \in S1.rp[r].listeners THEN onExit(S1, r) ELSE S1
  IN [S2 EXCEPT !.rp[r].listeners = {}]

\* stop() after `await kill(this.pid)`, or at once when there is no pid.
StopFinish(S, r) ==
  EmitExit([S EXCEPT !.rp[r].spawnChild = "null"], r)

\* stop() up to its first suspension: returns at once when already stopped,
\* requests the tree kill when a pid exists, finishes otherwise.
\* (variant: the check of the stop flag is missing)
stop_noGuard(S, r) ==
  LET S1 == [S EXCEPT !.rp[r].stop = TRUE, !.rp[r].stopCalled = TRUE]
  IN IF pid(S1.rp[r])
     THEN [S1 EXCEPT !.rp[r].kill = "pending",
                     !.rp[r].killRequests = @ + 1]
     ELSE StopFinish(S1, r)

stop(S, r) ==
  IF S.rp[r].stop THEN S
  ELSE LET S1 == [S EXCEPT !.rp[r].stop = TRUE, !.rp[r].stopCalled = TRUE]
       IN IF pid(S1.rp[r])
          THEN [S1 EXCEPT !.rp[r].kill = "pending",
                          !.rp[r].killRequests = @ + 1]
          ELSE StopFinish(S1, r)

\* Whether the promise stop() returned is still pending after the call.
StopSuspended(S, r) == ~S.rp[r].stop /\ pid(S.rp[r])

\* restart(): stop when the budget is used up, otherwise count and start.
\* `undefined >= 0` is false: without the option there is no budget.
\* (variant: the comparison is off by one)
BudgetExhausted_offByOne(p) ==
  /\ p.options.hasMaximumAutoRestart
  /\ p.options.maximumAutoRestart >= 0
  /\ p.restarts > p.options.maximumAutoRestart

BudgetExhausted(p) ==
  /\ p.options.hasMaximumAutoRestart
  /\ p.options.maximumAutoRestart >= 0
  /\ p.restarts + 1 > p.options.maximumAutoRestart

restart(S, r, ok) ==
  IF BudgetExhausted(S.rp[r]) THEN stop(S, r)
  ELSE [S EXCEPT !.rp[r] = start([@ EXCEPT !.restarts = @ + 1], ok)]

\* The 'exit' listener of the child: forget the handle; schedule a restart,
\* or emit 'done' and stop.
\* (variant: the record is marked stopped when its child exits)
onChildExit_marksStopped(S, r) ==
  LET S1 == [S EXCEPT !.rp[r].spawnChild = "null", !.rp[r].stop = TRUE]
  IN [S1 EXCEPT !.rp[r].doneEmitted = @ + 1]

\* this.emit('done', { result, error }): the requests that wait with a
\* 'done' listener on the record are answered.
emitDone(S, r) ==
  [S EXCEPT !.rp[r].doneEmitted = @ + 1,
            !.rpc.waits =
              IF "done" \in S.rp[r].listeners
              THEN {IF w.r = r THEN [w EXCEPT !.answered = TRUE] ELSE w : w \in @}
              ELSE @]

\* (variant: the restart is made in the 'exit' handler, without the timer)
onChildExit_noDelay(S, r) ==
  LET S1 == [S EXCEPT !.rp[r].spawnChild = "null"]
  IN IF ~S1.rp[r].stop /\ S1.rp[r].options.autoRestart
     THEN restart(S1, r, TRUE)
     ELSE stop(emitDone(S1, r), r)

onChildExit(S, r) ==
  LET S1 == [S EXCEPT !.rp[r].spawnChild = "null"]
  IN IF ~S1.rp[r].stop /\ S1.rp[r].options.autoRestart
     THEN [S1 EXCEPT !.rp[r].timers = @ + 1]
     ELSE stop(emitDone(S1, r), r)

\* ----------------------------------------------------------------- answers

\* What a request is answered with.  kind: "record" (a RunningProcess object),
\* "snapshot" (its toJSON()), "undefined", or "error" with the message in err.
Answer(kind, rid, stopFlag, err) ==
  [kind |-> kind, rid |-> rid, stop |-> stopFlag, err |-> err]

\* new Error(`Process ${ id } not found.`).message
NotFoundMessage(key) == <<"Process ", TemplateString(key), " not found.">>

\* The TypeError of calling a method the value does not have.
NotAFunctionMessage == <<"this.stop(...).toJSON is not a function">>

\* The rejection of kill(pid).
KillErrorMessage == <<"kill failed">>

\* DaemonizerServer.fork({id, spawnArgs, runningProcessOptions}): the state
\* it leaves, and the record it returns.
\* (variant: a fork of an existing id merges the request into the record)
fork_merge(S, q, ok) ==
  LET found == findProcessById(S, StrKey(q.id))
      n == Len(S.rp) + 1
      p == NewRunningProcess(q.id, q.command, q.options, n, ok)
  IN IF found # 0
     THEN [S EXCEPT !.rp[found].spawnArgs = q.command,
                    !.rp[found].options = AssignOptions(q.options)]
     ELSE [S EXCEPT
             !.rp = Append(S.rp, [p EXCEPT !.listeners = ForwardingListeners]),
             !.reg = Append(S.reg, n)]

fork(S, q, ok) ==
  LET found == findProcessById(S, StrKey(q.id))
      n == Len(S.rp) + 1
      p == NewRunningProcess(q.id, q.command, q.options, n, ok)
  IN IF found # 0 THEN S
     ELSE [S EXCEPT
             !.rp = Append(S.rp, [p EXCEPT !.listeners = ForwardingListeners]),
             !.reg = Append(S.reg, n)]

forkReturn(S, q) ==
  LET found == findProcessById(S, StrKey(q.id))
  IN IF found # 0 THEN found ELSE Len(S.rp) + 1

\* DaemonizerServer.stop(id): throws when no record is found, otherwise
\* delegates to the record's stop().
stopThrows(S, key) == findProcessById(S, key) = 0

serverStop(S, key) ==
  LET r == findProcessById(S, key)
  IN IF r = 0 THEN S ELSE stop(S, r)

\* An async function returns a Promise, whatever it does.
stopReturns == "Promise"

\* toJSON is a method of RunningProcess only.
HasToJSON(value) == value = "RunningProcess"

\* The 'stop' handler of the socket:
\*   socket.emit('stopped', { res: this.stop(payload).toJSON() })
\* with { err: err.message } when that throws.
SocketStopAnswer(S, key) ==
  LET r == findProcessById(S, key)
  IN IF stopThrows(S, key) THEN Answer("error", 0, FALSE, NotFoundMessage(key))
     ELSE IF HasToJSON(stopReturns)
     THEN Answer("snapshot", r, serverStop(S, key).rp[r].stop, <<>>)
     ELSE Answer("error", r, FALSE, NotAFunctionMessage)

\* The 'exec' handler with method stop and payload [id]:
\*   socket.emit(resultId, { result: await result() })
\* with { error: err.message } when that throws.  killOk is the outcome of
\* the kill the call may have to wait for.
ExecStopAnswer(S, key, killOk) ==
  LET r == findProcessById(S, key)
  IN IF stopThrows(S, key) THEN Answer("error", 0, FALSE, NotFoundMessage(key))
     ELSE IF StopSuspended(S, r) /\ ~killOk
     THEN Answer("error", r, FALSE, KillErrorMessage)
     ELSE Answer("undefined", r, FALSE, <<>>)

\* ------------------------------------------------------------------ actions

\* defaultConfig: autoClose is false.
defaultConfig == [autoClose |-> FALSE]

\* The state of the generic envelope:
\*   customMethod  how the method an embedding program installed on the
\*                 supervisor behaves ("absent" when none is installed)
\*   subs          the listeners of progress-<processId> on the supervisor,
\*                 in the order they were added; `request` is the id of the
\*                 request that added the listener
\*   pending       'exec' handlers suspended in `await result()`
\*   requests      requests the 'exec' handler has received
\*   forked        ghost: the fork requests answered with a result
\* and what the last handler that ran did:
\*   last          the request of the 'exec' handler and how it left it
\*   invoked       the supervisor methods it called, with their arguments
\*   emitted       the notifications it sent to sockets
\*   output        the record whose stdout chunk it relayed (0: none)
\*   chunks        the stdout 'data' events handled so far: the number of the
\*                 latest chunk
\* and the last call of status():
\*   status        see NoStatus
\* and the synchronous-wait fork requests (POST /fork?wait):
\*   waits         the record each one waits for and whether it was answered
NoRequest == [socket |-> "", raw |-> 0, id |-> NoId, outcome |-> "none"]

\* status() was not called: otherwise the id it was called with, whether it
\* rejected, the table it returned and the records the sampler was asked
\* about.
NoStatus ==
  [called |-> FALSE, id |-> NoId, rejected |-> FALSE, table |-> <<>>,
   sampled |-> {}]

InitRpcState(custom) ==
  [customMethod |-> custom, subs |-> <<>>, pending |-> {}, requests |-> 0,
   forked |-> {}, last |-> NoRequest, invoked |-> <<>>, emitted |-> <<>>,
   output |-> 0, chunks |-> 0, status |-> NoStatus, waits |-> {}]

\* DaemonizerClient.instance(): no call was made yet.
\*   calls     the calls made through the proxy, in order: the request, the
\*             state of the promise, whether the once-listener of res-<id>
\*             and the timer are set, how often resolve or reject was called
\*             and the response that settled the call, if one did
\*   toServer  the calls whose 'exec' message is on its way to the daemon
\*   toClient  the notifications on their way to the client, in the order
\*             the daemon sent them (the channel keeps the order)
\*   dropped   the notifications that arrived and found no listener
\*   facade    the Daemonizer facade on its own socket: its calls, the events
\*             on their way to the daemon and those on their way back
InitClientState ==
  [calls |-> <<>>, toServer |-> {}, toClient |-> <<>>, dropped |-> {},
   facade |-> [calls |-> <<>>, toServer |-> <<>>, toClient |-> <<>>]]

\* The value of `void`, where a pid is expected.
NoPid == 0

\* The marker file (config.runningThread) and the OS:
\*   file      the pid the marker records (NoPid: there is no marker)
\*   alive     the pids of the processes that are alive
\*   probes    calls of isRunning so far
\* and of the last call of isRunning:
\*   returned  what it returned
\*   raised    whether it threw
\*   stale     whether it found a marker whose pid was dead
\* The daemons:
\*   booting   the processes start() launched whose constructor has not run
\*   daemons   the processes in which the constructor of a daemon has run
\* and the last call of start, ensureRunning or a method of the facade:
\*   op        see Op
\* The live process a marker names at the beginning is the daemon that
\* wrote it.
MarkerState(file, alive) ==
  [file |-> file, alive |-> alive, probes |-> 0, returned |-> NoPid,
   raised |-> FALSE, stale |-> FALSE,
   booting |-> {}, daemons |-> {file} \cap alive,
   op |-> [name |-> "none", detected |-> NoPid, threw |-> <<>>,
           value |-> NoPid, did |-> <<>>]]

\* No marker file and no daemon.
InitMarkerState == MarkerState(NoPid, {})

\* new DaemonizerServer(config): an empty registry.
InitDaemon(cfg, custom) ==
  /\ rp = <<>>
  /\ runningProcesses = <<>>
  /\ config = cfg
  /\ closeTimers = 0
  /\ closeChecks = 0
  /\ exited = FALSE
  /\ rpc = InitRpcState(custom)

InitServer(cfg, custom) ==
  /\ InitDaemon(cfg, custom)
  /\ client = InitClientState
  /\ marker = InitMarkerState

Init == InitServer(defaultConfig, "absent")

\* A handler of the daemon ran and left S.  No handler runs once the daemon
\* has exited.
CommitServer(S) ==
  /\ ~exited
  /\ rp' = S.rp
  /\ runningProcesses' = S.reg
  /\ closeTimers' = S.closeTimers
  /\ closeChecks' = S.closeChecks
  /\ exited' = S.exited
  /\ rpc' = S.rpc
  /\ UNCHANGED config

Commit(S) == CommitServer(S) /\ UNCHANGED <<client, marker>>

\* A fork request is handled.
Fork(q, ok) ==
  /\ findProcessById(State, StrKey(q.id)) # 0 \/ Len(rp) < MaxRecords
  /\ Commit(fork(State, q, ok))

\* Children that terminated on their own so far, over the records 1..n.
RECURSIVE Deaths(_, _)
Deaths(procs, n) == IF n = 0 THEN 0 ELSE procs[n].died + Deaths(procs, n - 1)

\* The child of record r terminates on its own, at most `cap` of them.
ChildDieUpTo(r, cap) ==
  /\ rp[r].os = "alive"
  /\ Deaths(rp, Len(rp)) < cap
  /\ rp' = [rp EXCEPT ![r].os = "dead", ![r].live = @ - 1, ![r].died = @ + 1]
  /\ UNCHANGED <<runningProcesses, config, closeTimers, closeChecks, exited, rpc>>
  /\ UNCHANGED <<client, marker>>

ChildDie(r) == ChildDieUpTo(r, MaxDeaths)

\* The daemon receives the 'exit' event of the child of record r.
ChildExitEvent(r) ==
  /\ rp[r].os = "dead"
  /\ Commit(onChildExit([State EXCEPT !.rp[r].os = "reaped",
                                      !.rp[r].exits = @ + 1], r))

\* A restart timer of record r fires.
RestartTimer(r, ok) ==
  /\ rp[r].timers > 0
  /\ Commit(restart([State EXCEPT !.rp[r].timers = @ - 1], r, ok))

\* A stop request is handled: the 'exec' handler with method stop.
ExecStop(id) == Commit(serverStop(State, StrKey(id)))

\* A stop request is handled: the 'stop' handler of the socket.
SocketStop(key) == Commit(serverStop(State, key))

\* stop() called on a record by a holder of the object.
RecordStop(r) == Commit(stop(State, r))

\* kill(pid) succeeded: the process tree is gone, stop() continues.
KillDone(r) ==
  /\ rp[r].kill = "pending"
  /\ Commit(StopFinish([State EXCEPT
         !.rp[r].kill = "resolved",
         !.rp[r].live = IF rp[r].os = "alive" THEN @ - 1 ELSE @,
         !.rp[r].os = IF @ = "alive" THEN "dead" ELSE @], r))

\* kill(pid) failed: stop() rejects where it stands.
KillFail(r) ==
  /\ rp[r].kill = "pending"
  /\ Commit([State EXCEPT !.rp[r].kill = "rejected"])

\* The ids a stop request may name: explicit ones and generated ones.
StopIds == Ids \cup {rp[r].id : r \in DOMAIN rp}

StopKeys == {StrKey(id) : id \in StopIds} \cup {ObjKey(id) : id \in StopIds}

Next ==
  \/ \E q \in ForkRequests, ok \in BOOLEAN : Fork(q, ok)
  \/ \E r \in DOMAIN rp : ChildDie(r)
  \/ \E r \in DOMAIN rp : ChildExitEvent(r)
  \/ \E r \in DOMAIN rp, ok \in BOOLEAN : RestartTimer(r, ok)
  \/ \E id \in StopIds : ExecStop(id)
  \/ \E key \in StopKeys : SocketStop(key)
  \/ \E r \in DOMAIN rp : RecordStop(r)
  \/ \E r \in DOMAIN rp : KillDone(r)
  \/ \E r \in DOMAIN rp : KillFail(r)

Spec == Init /\ [][Next]_vars

\* Fairness of the event loop and of the OS: a delivered-to-be 'exit' event
\* is delivered, a timer that is due fires, a kill(pid) settles one way or
\* the other.
Fairness ==
  /\ WF_vars(\E r \in DOMAIN rp : ChildExitEvent(r))
  /\ WF_vars(\E r \in DOMAIN rp, ok \in BOOLEAN : RestartTimer(r, ok))
  /\ WF_vars(\E r \in DOMAIN rp : KillDone(r) \/ KillFail(r))

FairSpec == Init /\ [][Next]_vars /\ Fairness

\* The restart cycle alone: forks with a negative budget (unlimited) and
\* with a budget of one, deaths, 'exit' events, restart timers and stops.
\* A timer that was set fires.
RestartRequests ==
  { [id |-> "a",  command |-> "c1", options |-> Opt(TRUE, TRUE, TRUE, -1)],
    [id |-> NoId, command |-> "c1", options |-> Opt(FALSE, TRUE, TRUE, 1)] }

NextRestart ==
  \/ \E q \in RestartRequests, ok \in BOOLEAN : Fork(q, ok)
  \/ \E r \in DOMAIN rp : ChildDie(r)
  \/ \E r \in DOMAIN rp : ChildExitEvent(r)
  \/ \E r \in DOMAIN rp, ok \in BOOLEAN : RestartTimer(r, ok)
  \/ \E r \in DOMAIN rp : RecordStop(r)
  \/ \E r \in DOMAIN rp : KillDone(r)

FairnessRestart ==
  \A r \in 1..MaxRecords :
    WF_vars(r \in DOMAIN rp /\ \E ok \in BOOLEAN : RestartTimer(r, ok))

FairSpecRestart == Init /\ [][NextRestart]_vars /\ FairnessRestart

\* ------------------------------------------- a process that keeps exiting

\* The default the documentation of RunningProcessOptions states for
\* maximumAutoRestart.
DocumentedMaximumAutoRestart == 100

LongRunDeaths == DocumentedMaximumAutoRestart + 1

LongChildDie(r) == ChildDieUpTo(r, LongRunDeaths)

\* One record forked without options, whose child exits again and again.
NextDefault ==
  \/ \E ok \in BOOLEAN : Fork(DefaultRequest, ok)
  \/ \E r \in DOMAIN rp : LongChildDie(r)
  \/ \E r \in DOMAIN rp : ChildExitEvent(r)
  \/ \E r \in DOMAIN rp, ok \in BOOLEAN : RestartTimer(r, ok)

SpecDefault == Init /\ [][NextDefault]_vars

\* ------------------------------------------------------------- autoClose

\* The grace timer of _exit fires.
CloseTimer ==
  /\ closeTimers > 0
  /\ Commit(closeTimerFired(State))

\* The daemon with either setting of autoClose: forks, exits of children,
\* restarts, stops and the grace timer.
NextClose ==
  \/ \E q \in ForkRequests, ok \in BOOLEAN : Fork(q, ok)
  \/ \E r \in DOMAIN rp : ChildDie(r)
  \/ \E r \in DOMAIN rp : ChildExitEvent(r)
  \/ \E r \in DOMAIN rp, ok \in BOOLEAN : RestartTimer(r, ok)
  \/ \E r \in DOMAIN rp : RecordStop(r)
  \/ \E r \in DOMAIN rp : KillDone(r)
  \/ CloseTimer

InitClose == \E ac \in BOOLEAN : InitServer([autoClose |-> ac], "absent")

SpecClose == InitClose /\ [][NextClose]_vars

\* ------------------------------------------------- the generic envelope

\* Method names, as their first character and the rest.
ForkMethod == <<"f", "ork">>
StopMethod == <<"s", "top">>
ListMethod == <<"l", "ist">>
ExitMethod == <<"_", "exit">>
CustomMethod == <<"c", "ustomMethod">>
ConfigMember == <<"c", "onfig">>
MissingMethod == <<"n", "ope">>
NoMethod == <<"", "">>

\* The client channels.
Sockets == {"s1", "s2"}

\* The ids RequestSchema generates for requests that carry none.
RequestIdPool == <<"q1", "q2", "q3", "q4", "q5", "q6">>

RequestUuid(n) == RequestIdPool[n]

\* A request as it arrives: has* says whether the key is present.
RawRequest(id, hasMethod, method, hasPayload, payload) ==
  [id |-> id, hasMethod |-> hasMethod, method |-> method,
   hasPayload |-> hasPayload, payload |-> payload]

ForkPayload(id) ==
  [id |-> id, command |-> "c1", options |-> Opt(TRUE, FALSE, FALSE, 0)]

\* The requests the channels send.  The third carries a request id that is
\* also the id of the process it forks.
RawRequests ==
  << RawRequest(NoId, TRUE, ForkMethod, TRUE, <<ForkPayload("a")>>),
     RawRequest(NoId, TRUE, ForkMethod, TRUE, <<ForkPayload(NoId)>>),
     RawRequest("b1", TRUE, ForkMethod, TRUE, <<ForkPayload("b1")>>),
     RawRequest(NoId, TRUE, ForkMethod, FALSE, <<>>),
     RawRequest(NoId, TRUE, StopMethod, TRUE, <<"a">>),
     RawRequest(NoId, TRUE, StopMethod, TRUE, <<"ghost">>),
     RawRequest(NoId, TRUE, ConfigMember, FALSE, <<>>),
     RawRequest(NoId, TRUE, ListMethod, FALSE, <<>>),
     RawRequest(NoId, TRUE, ExitMethod, TRUE, <<"a">>),
     RawRequest(NoId, TRUE, MissingMethod, TRUE, <<"a">>),
     RawRequest(NoId, FALSE, NoMethod, TRUE, <<"a">>),
     RawRequest(NoId, TRUE, CustomMethod, TRUE, <<"x", "y">>) >>

\* How an installed customMethod behaves: it returns a value, throws an
\* Error with a message, or throws an Error without one ("absent": none is
\* installed).
CustomBehaviours == {"returns", "throws", "throwsEmpty"}

\* RequestSchema.parse: method is required; id and payload have defaults.
parseThrows(raw) == ~raw.hasMethod

parse(raw, n) ==
  [id |-> IF raw.id = NoId THEN RequestUuid(n) ELSE raw.id,
   method |-> raw.method,
   payload |-> IF raw.hasPayload THEN raw.payload ELSE <<>>]

\* /^_/.test(request.method)
StartsWithUnderscore(method) == method[1] = "_"

\* typeof this[request.method] on the supervisor.
Member(S, method) ==
  IF method \in {ForkMethod, StopMethod, ListMethod, ExitMethod}
  THEN "function"
  ELSE IF method = CustomMethod /\ S.rpc.customMethod # "absent" THEN "function"
  ELSE IF method = ConfigMember THEN "object"
  ELSE "undefined"

\* _exec throws: the request is malformed, or names a private or missing
\* member.
\* (variant: the leading underscore is not looked at)
_execThrows_noPrivateCheck(S, raw) ==
  \/ parseThrows(raw)
  \/ Member(S, raw.method) = "undefined"

_execThrows(S, raw) ==
  \/ parseThrows(raw)
  \/ StartsWithUnderscore(raw.method)
  \/ Member(S, raw.method) = "undefined"

\* A handler starts: what the last one did is forgotten.
Step(S) ==
  [S EXCEPT !.rpc.last = NoRequest, !.rpc.invoked = <<>>,
            !.rpc.emitted = <<>>, !.rpc.output = 0]

\* socket.emit(event-<id>, body)
Notification(socket, event, id, body) ==
  [socket |-> socket, event |-> event, id |-> id, body |-> body]

\* The bodies of res-<id>: { result } and { error: err.message }.
Result(value) == [hasError |-> FALSE, error |-> <<>>, result |-> value]
Failure(message) == [hasError |-> TRUE, error |-> message, result |-> <<>>]

Undefined == <<"undefined">>
Snapshot(S, r) == <<"snapshot", S.rp[r].id>>
ListResult(S) == <<"list">> \o [i \in DOMAIN S.reg |-> S.rp[S.reg[i]].id]
CustomResult == <<"juhm">>
CustomMessage == <<"invalid!">>
EmptyMessage == <<>>
NotCallableMessage == <<"this[request.method] is not a function">>

\* The 'request-start' listener of the constructor, for method fork: the
\* process id is read from (and written to) the first payload element, and
\* the socket is subscribed to progress-<processId>.
requestStartThrows(request) ==
  request.method = ForkMethod /\ Len(request.payload) = 0

processIdOf(S, request) ==
  IF request.payload[1].id = NoId THEN uuid(Len(S.rp) + 1)
  ELSE request.payload[1].id

withProcessId(S, request) ==
  IF request.method = ForkMethod
  THEN [request EXCEPT !.payload[1].id = processIdOf(S, request)]
  ELSE request

requestStart(S, socket, request) ==
  IF request.method = ForkMethod
  THEN [S EXCEPT !.rpc.subs =
          Append(@, [processId |-> processIdOf(S, request),
                     socket |-> socket, request |-> request.id])]
  ELSE S

\* this.emit(`request-end-${ request.id }`): the once-listeners of that
\* event remove the progress listeners they were set up with, those whose
\* processId is the id in the event name.
\* (variant: the listeners are found by the request that added them)
requestEnd_byRequest(S, id) ==
  [S EXCEPT !.rpc.subs = SelectSeq(@, LAMBDA sub : sub.request # id)]

requestEnd(S, id) ==
  [S EXCEPT !.rpc.subs = SelectSeq(@, LAMBDA sub : sub.processId # id)]

\* socket.emit(resultId, body), then the two request-end events.
respond(S, socket, id, body) ==
  requestEnd([S EXCEPT !.rpc.emitted =
                Append(@, Notification(socket, "res", id, body))], id)

\* this[request.method](...castArray(request.payload)): the state the call
\* leaves, and kind: "result", "error" (it threw) or "pending" (it returned
\* a promise that is not settled yet).  An argument that came over the
\* socket is never a record of the registry: _exit finds nothing to splice.
Invocation(S, kind, value, r) == [S |-> S, kind |-> kind, value |-> value, r |-> r]

invoke(S0, request, ok) ==
  LET S == [S0 EXCEPT !.rpc.invoked =
              Append(@, [method |-> request.method, args |-> request.payload])]
  IN IF Member(S, request.method) # "function"
     THEN Invocation(S0, "error", NotCallableMessage, 0)
     ELSE IF request.method = ForkMethod
     THEN Invocation(fork(S, request.payload[1], ok), "result",
                     Snapshot(fork(S, request.payload[1], ok),
                              forkReturn(S, request.payload[1])), 0)
     ELSE IF request.method = StopMethod
     THEN LET key == StrKey(request.payload[1])
              r == findProcessById(S, key)
          IN IF stopThrows(S, key)
             THEN Invocation(S, "error", NotFoundMessage(key), 0)
             ELSE IF StopSuspended(S, r)
             THEN Invocation(stop(S, r), "pending", Undefined, r)
             ELSE Invocation(stop(S, r), "result", Undefined, r)
     ELSE IF request.method = ListMethod
     THEN Invocation(S, "result", ListResult(S), 0)
     ELSE IF request.method = ExitMethod
     THEN Invocation(scheduleClose(S), "result", Undefined, 0)
     ELSE IF S.rpc.customMethod = "returns"
     THEN Invocation(S, "result", CustomResult, 0)
     ELSE IF S.rpc.customMethod = "throws"
     THEN Invocation(S, "error", CustomMessage, 0)
     ELSE Invocation(S, "error", EmptyMessage, 0)

\* The 'exec' handler of the socket.  _exec and the 'request-start'
\* listeners run before the try block: when one of them throws, the handler
\* ends there ("rejected") and nothing is sent.
onExec(S0, socket, raw, i, ok) ==
  LET n == S0.rpc.requests + 1
      S == [Step(S0) EXCEPT !.rpc.requests = n]
      Last(id, outcome) ==
        [socket |-> socket, raw |-> i, id |-> id, outcome |-> outcome]
  IN IF _execThrows(S, raw)
     THEN [S EXCEPT !.rpc.last = Last(raw.id, "rejected")]
     ELSE
       LET parsed == parse(raw, n)
       IN IF requestStartThrows(parsed)
          THEN [S EXCEPT !.rpc.last = Last(parsed.id, "rejected")]
          ELSE
            LET request == withProcessId(S, parsed)
                done == invoke(requestStart(S, socket, parsed), request, ok)
            IN IF done.kind = "pending"
               THEN [done.S EXCEPT
                       !.rpc.last = Last(request.id, "pending"),
                       !.rpc.pending = @ \cup
                         {[socket |-> socket, id |-> request.id, r |-> done.r]}]
               ELSE IF done.kind = "error"
               THEN respond([done.S EXCEPT
                               !.rpc.last = Last(request.id, "answered")],
                            socket, request.id, Failure(done.value))
               ELSE respond([done.S EXCEPT
                               !.rpc.last = Last(request.id, "answered"),
                               !.rpc.forked = IF request.method = ForkMethod
                                 THEN @ \cup {[socket |-> socket,
                                               processId |-> request.payload[1].id,
                                               request |-> request.id]}
                                 ELSE @],
                            socket, request.id, Result(done.value))

\* The handler, for the i-th of the requests the channels send.
exec(S0, socket, i, ok) == onExec(S0, socket, RawRequests[i], i, ok)

\* The promise an 'exec' handler awaits settles: the handlers waiting for
\* the stop() of record r go on, one after the other.
RECURSIVE resume(_, _, _)
resume(S, r, body) ==
  LET waiting == {w \in S.rpc.pending : w.r = r}
  IN IF waiting = {} THEN S
     ELSE LET w == CHOOSE w \in waiting : TRUE
          IN resume(respond([S EXCEPT !.rpc.pending = @ \ {w}],
                            w.socket, w.id, body), r, body)

\* ioOutputPipe and the progress listeners: a stdout chunk of record r is
\* emitted as progress-<id> on the supervisor and sent on by every listener
\* of that event.
RECURSIVE relay(_, _, _)
relay(S, id, i) ==
  IF i > Len(S.rpc.subs) THEN S
  ELSE relay(IF S.rpc.subs[i].processId = id
             THEN [S EXCEPT !.rpc.emitted =
                     Append(@, Notification(S.rpc.subs[i].socket, "progress",
                                            id, <<"chunk", S.rpc.chunks>>))]
             ELSE S, id, i + 1)

\* (variant: a chunk is held back and the one before it is relayed)
onOutput_heldBack(S0, r) ==
  LET S == [Step(S0) EXCEPT !.rpc.output = r]
  IN [(IF "output" \in S.rp[r].listeners THEN relay(S, S.rp[r].id, 1) ELSE S)
        EXCEPT !.rpc.chunks = @ + 1]

onOutput(S0, r) ==
  LET S == [Step(S0) EXCEPT !.rpc.output = r, !.rpc.chunks = @ + 1]
  IN IF "output" \in S.rp[r].listeners THEN relay(S, S.rp[r].id, 1) ELSE S

\* The client side of a response: `if (error) reject(error) else
\* resolve(result)`; an empty string is falsy.
settle(body) ==
  IF body.hasError /\ body.error # EmptyMessage
  THEN [state |-> "rejected", value |-> body.error]
  ELSE [state |-> "resolved", value |-> body.result]

\* An 'exec' message arrives on a socket; the spawn of a fork succeeds.
Exec(socket, i) ==
  /\ rpc.requests < MaxRequests
  /\ \/ RawRequests[i].method # ForkMethod
     \/ Len(rp) < MaxRecords
  /\ Commit(exec(State, socket, i, TRUE))

\* kill(pid) of the stop() of record r settles, and the handlers that await
\* that stop() answer.
onKillDone(S, r) ==
  resume(StopFinish([Step(S) EXCEPT
           !.rp[r].kill = "resolved",
           !.rp[r].live = IF S.rp[r].os = "alive" THEN @ - 1 ELSE @,
           !.rp[r].os = IF @ = "alive" THEN "dead" ELSE @], r),
         r, Result(Undefined))

onKillFail(S, r) ==
  resume([Step(S) EXCEPT !.rp[r].kill = "rejected"], r, Failure(KillErrorMessage))

ExecKillDone(r) ==
  /\ rp[r].kill = "pending"
  /\ Commit(onKillDone(State, r))

ExecKillFail(r) ==
  /\ rp[r].kill = "pending"
  /\ Commit(onKillFail(State, r))

\* The child of record r writes a chunk to its stdout.
Output(r) ==
  /\ rp[r].os = "alive"
  /\ rpc.chunks < MaxChunks
  /\ Commit(onOutput(State, r))

NextRpc ==
  \/ \E socket \in Sockets, i \in DOMAIN RawRequests : Exec(socket, i)
  \/ \E r \in DOMAIN rp : ExecKillDone(r)
  \/ \E r \in DOMAIN rp : ExecKillFail(r)
  \/ \E r \in DOMAIN rp : Output(r)

InitRpc == \E custom \in CustomBehaviours : InitServer(defaultConfig, custom)

SpecRpc == InitRpc /\ [][NextRpc]_vars

\* ------------------------------------------------------- the RemoteClient

\* The channel of the client.
ClientSocket == "s1"

\* The message of the RequestError of a timeout.
TimedOut == <<"Timed out">>

\* The calls the embedding program makes through the proxy: the property it
\* reads and the arguments it passes.
ClientCalls ==
  << [method |-> ForkMethod, payload |-> <<ForkPayload("a")>>],
     [method |-> StopMethod, payload |-> <<"a">>],
     [method |-> CustomMethod, payload |-> <<"x", "y">>],
     [method |-> MissingMethod, payload |-> <<"a">>] >>

\* resolve(value) or reject(value) of the promise of a call: only the first
\* of them settles it.  `by` holds the response that did, if any.
promiseSettle(call, outcome, by) ==
  [call EXCEPT !.state = IF call.state = "pending" THEN outcome.state ELSE @,
               !.value = IF call.state = "pending" THEN outcome.value ELSE @,
               !.by = IF call.state = "pending" THEN by ELSE @,
               !.settles = @ + 1]

\* client.<method>(...payload): the request gets its id, is sent, and the
\* once-listener of res-<id> and the timer are set.
proxyCall(C, c) ==
  LET k == Len(C.calls) + 1
      request == parse(RawRequest(NoId, TRUE, ClientCalls[c].method, TRUE,
                                  ClientCalls[c].payload), k)
  IN [C EXCEPT !.calls = Append(@, [call |-> c, id |-> request.id,
                                    state |-> "pending", value |-> <<>>,
                                    listener |-> TRUE, timer |-> TRUE,
                                    settles |-> 0, by |-> <<>>]),
               !.toServer = @ \cup {k}]

\* The request of call k as it is sent.
sentRequest(C, k) ==
  RawRequest(C.calls[k].id, TRUE, ClientCalls[C.calls[k].call].method, TRUE,
             ClientCalls[C.calls[k].call].payload)

\* The calls whose listener an arriving res-<id> runs.
\* (variant: the listeners are not keyed by the id)
listenersOf_anyId(C, id) == {k \in DOMAIN C.calls : C.calls[k].listener}

listenersOf(C, id) ==
  {k \in DOMAIN C.calls : C.calls[k].listener /\ C.calls[k].id = id}

\* The once-listener of res-<id>: it is removed, clears the timer and
\* settles the promise.
\* (variant: the timer is left running)
responseListener_noClearTimeout(call, n) ==
  promiseSettle([call EXCEPT !.listener = FALSE], settle(n.body), <<n>>)

responseListener(call, n) ==
  promiseSettle([call EXCEPT !.listener = FALSE, !.timer = FALSE],
                settle(n.body), <<n>>)

\* The first notification on the channel arrives at the client.
onResponse(C, n) ==
  LET ks == listenersOf(C, n.id)
  IN IF ks = {}
     THEN [C EXCEPT !.toClient = Tail(@), !.dropped = @ \cup {n}]
     ELSE [C EXCEPT !.toClient = Tail(@),
                    !.calls = [k \in DOMAIN @ |->
                                 IF k \in ks THEN responseListener(@[k], n)
                                 ELSE @[k]]]

\* The timer of call k fires: the listener is removed and the promise is
\* rejected.
\* (variant: the listener stays)
onTimeout_keepListener(C, k) ==
  [C EXCEPT !.calls[k] =
     promiseSettle([@ EXCEPT !.timer = FALSE],
                   [state |-> "rejected", value |-> TimedOut], <<>>)]

onTimeout(C, k) ==
  [C EXCEPT !.calls[k] =
     promiseSettle([@ EXCEPT !.timer = FALSE, !.listener = FALSE],
                   [state |-> "rejected", value |-> TimedOut], <<>>)]

\* What a handler of the daemon sent goes on its way to the client.
flush(C, S) == [C EXCEPT !.toClient = @ \o S.rpc.emitted]

\* The embedding program calls a method of the client.
CallUpTo(c, cap) ==
  /\ Len(client.calls) < cap
  /\ client' = proxyCall(client, c)
  /\ UNCHANGED <<serverVars, marker>>

Call(c) == CallUpTo(c, MaxRequests)

\* The 'exec' message of call k arrives at the daemon: the messages of a
\* channel arrive in the order they were sent.
ClientExec(k) ==
  /\ k \in client.toServer
  /\ \A j \in client.toServer : k <= j
  /\ \/ ClientCalls[client.calls[k].call].method # ForkMethod
     \/ findProcessById(State, StrKey("a")) # 0
     \/ Len(rp) < MaxRecords
  /\ LET S == onExec(State, ClientSocket, sentRequest(client, k), 0, TRUE)
     IN /\ CommitServer(S)
        /\ client' = flush([client EXCEPT !.toServer = @ \ {k}], S)
  /\ UNCHANGED marker

\* kill(pid) of the stop() of record r settles.
ClientKillDone(r) ==
  /\ rp[r].kill = "pending"
  /\ CommitServer(onKillDone(State, r))
  /\ client' = flush(client, onKillDone(State, r))
  /\ UNCHANGED marker

ClientKillFail(r) ==
  /\ rp[r].kill = "pending"
  /\ CommitServer(onKillFail(State, r))
  /\ client' = flush(client, onKillFail(State, r))
  /\ UNCHANGED marker

\* A notification arrives at the client.
Response ==
  /\ client.toClient # <<>>
  /\ client' = onResponse(client, Head(client.toClient))
  /\ UNCHANGED <<serverVars, marker>>

\* The timer of call k fires.
Timeout(k) ==
  /\ k \in DOMAIN client.calls
  /\ client.calls[k].timer
  /\ client' = onTimeout(client, k)
  /\ UNCHANGED <<serverVars, marker>>

NextClient ==
  \/ \E c \in DOMAIN ClientCalls : Call(c)
  \/ \E k \in DOMAIN client.calls : ClientExec(k)
  \/ \E r \in DOMAIN rp : ClientKillDone(r)
  \/ \E r \in DOMAIN rp : ClientKillFail(r)
  \/ Response
  \/ \E k \in DOMAIN client.calls : Timeout(k)

SpecClient == InitRpc /\ [][NextClient]_vars

\* Fairness of the event loops and of the channel: a timer that is set
\* fires, a message that was sent arrives, a kill(pid) settles one way or the
\* other.
ClientFairness ==
  /\ WF_vars(\E k \in DOMAIN client.calls : Timeout(k))
  /\ WF_vars(Response)
  /\ WF_vars(\E r \in DOMAIN rp : ClientKillDone(r) \/ ClientKillFail(r))

FairCall(c) == CallUpTo(c, MaxFairCalls)

NextFairClient ==
  \/ \E c \in DOMAIN ClientCalls : FairCall(c)
  \/ \E k \in DOMAIN client.calls : ClientExec(k)
  \/ \E r \in DOMAIN rp : ClientKillDone(r)
  \/ \E r \in DOMAIN rp : ClientKillFail(r)
  \/ Response
  \/ \E k \in DOMAIN client.calls : Timeout(k)

FairSpecClient == InitRpc /\ [][NextFairClient]_vars /\ ClientFairness

\* ------------------------------------------------------ the singleton

Pids == 1..MaxPid

\* isRunning(pid) of the is-running package: the OS knows the process.
isRunning(M, p) == p \in M.alive

\* DaemonizerServer.isRunning(config): the pid of the marker when the marker
\* exists and its process is alive, undefined otherwise; nothing is written.
\* (variant: the liveness of the pid is not probed)
serverIsRunning_noProbe(M) ==
  [M EXCEPT !.probes = @ + 1,
            !.returned = M.file,
            !.raised = FALSE,
            !.stale = M.file # NoPid /\ M.file \notin M.alive]

serverIsRunning(M) ==
  [M EXCEPT !.probes = @ + 1,
            !.returned = IF M.file # NoPid
                         THEN (IF isRunning(M, M.file) THEN M.file ELSE NoPid)
                         ELSE NoPid,
            !.raised = FALSE,
            !.stale = M.file # NoPid /\ M.file \notin M.alive]

\* The constructor of a daemon running as process p writes the marker.
writeMarker(M, p) == [M EXCEPT !.file = p, !.alive = @ \cup {p}]

\* DaemonizerServer.isRunning() is called.
Probe ==
  /\ marker.probes < MaxProbes
  /\ marker' = serverIsRunning(marker)
  /\ UNCHANGED <<serverVars, client>>

\* new DaemonizerServer() in process p: the marker is written.
boot(M, p) ==
  [writeMarker(M, p) EXCEPT !.daemons = @ \cup {p}, !.booting = @ \ {p}]

\* A daemon is started as process p.
Boot(p) ==
  /\ p \notin marker.alive
  /\ marker' = boot(marker, p)
  /\ UNCHANGED <<serverVars, client>>

\* Process p ends.
PidDies(p) ==
  /\ p \in marker.alive
  /\ marker' = [marker EXCEPT !.alive = @ \ {p}]
  /\ UNCHANGED <<serverVars, client>>

NextSingleton ==
  \/ Probe
  \/ \E p \in Pids : Boot(p)
  \/ \E p \in Pids : PidDies(p)

\* Any marker, left by any earlier daemon, and any set of live processes.
InitSingleton ==
  /\ InitDaemon(defaultConfig, "absent")
  /\ client = InitClientState
  /\ \E file \in {NoPid} \cup Pids, alive \in SUBSET Pids :
       marker = MarkerState(file, alive)

SpecSingleton == InitSingleton /\ [][NextSingleton]_vars

\* ------------------------------------------- start and the facade

\* What a call did: the pid isRunning found (`detected`), the message of the
\* error it threw (<<>>: none), the pid it returned (`value`) and, in
\* order, the processes it launched (<<"spawn", pid, "">>) and the requests
\* it emitted to the daemon (<<"emit", NoPid, event>>).
Op(name, detected, threw, value, did) ==
  [name |-> name, detected |-> detected, threw |-> threw, value |-> value,
   did |-> did]

\* `Another process is already running (pid = ${ runningPid })`
AlreadyRunningMessage(runningPid) ==
  <<"Another process is already running (pid = ", runningPid, ")">>

\* `DaemonizerServer not running.`
NotRunningMessage == <<"DaemonizerServer not running.">>

\* What DaemonizerServer.isRunning() returns.
runningPidOf(M) == serverIsRunning(M).returned

\* spawn('node', [__filename, ...], { detached: true, ... }); child.unref():
\* the OS runs the child as process p; its constructor has not run yet.
spawnDaemon(M, p) ==
  [M EXCEPT !.alive = @ \cup {p}, !.booting = @ \cup {p},
            !.daemons = @ \ {p},
            !.op.did = Append(@, <<"spawn", p, "">>)]

\* DaemonizerServer.start(config, env): throws when isRunning finds a live
\* daemon, launches one and returns its pid otherwise.
\* (variant: isRunning is not asked)
serverStart_noCheck(M0, p) ==
  LET M == [M0 EXCEPT !.op = Op("start", runningPidOf(M0), <<>>, NoPid, <<>>)]
  IN [spawnDaemon(M, p) EXCEPT !.op.value = p]

serverStart(M0, p) ==
  LET runningPid == runningPidOf(M0)
      M == [M0 EXCEPT !.op = Op("start", runningPid, <<>>, NoPid, <<>>)]
  IN IF runningPid # NoPid
     THEN [M EXCEPT !.op.threw = AlreadyRunningMessage(runningPid)]
     ELSE [spawnDaemon(M, p) EXCEPT !.op.value = p]

\* DaemonizerServer.ensureRunning(): start() unless isRunning finds a daemon.
ensureRunning(M0, p) ==
  IF runningPidOf(M0) = NoPid
  THEN [serverStart(M0, p) EXCEPT !.op.name = "ensureRunning"]
  ELSE [M0 EXCEPT !.op = Op("ensureRunning", runningPidOf(M0), <<>>, NoPid, <<>>)]

\* this.io.emit(event, ...) of the facade.
facadeEmit(M, event) ==
  [M EXCEPT !.op.did = Append(@, <<"emit", NoPid, event>>)]

\* Daemonizer.fork: start() when isRunning finds no daemon, then the 'start'
\* request is emitted.
\* (variant: the request is emitted without looking for a daemon)
facadeFork_noStart(M0, p) ==
  facadeEmit([M0 EXCEPT !.op = Op("fork", runningPidOf(M0), <<>>, NoPid, <<>>)],
             "start")

facadeFork(M0, p) ==
  LET detected == runningPidOf(M0)
      M == IF detected = NoPid
           THEN [serverStart(M0, p) EXCEPT !.op.value = NoPid]
           ELSE [M0 EXCEPT !.op = Op("fork", detected, <<>>, NoPid, <<>>)]
  IN facadeEmit([M EXCEPT !.op.name = "fork"], "start")

\* Daemonizer.stop and Daemonizer.status: throw when isRunning finds no
\* daemon, emit the request otherwise.
\* (variant: a daemon is started when none is found)
facadeRequest_starts(M0, name, p) ==
  LET detected == runningPidOf(M0)
      M == IF detected = NoPid
           THEN [serverStart(M0, p) EXCEPT !.op.value = NoPid]
           ELSE [M0 EXCEPT !.op = Op(name, detected, <<>>, NoPid, <<>>)]
  IN facadeEmit([M EXCEPT !.op.name = name], name)

facadeRequest(M0, name, p) ==
  LET detected == runningPidOf(M0)
      M == [M0 EXCEPT !.op = Op(name, detected, <<>>, NoPid, <<>>)]
  IN IF detected = NoPid
     THEN [M EXCEPT !.op.threw = NotRunningMessage]
     ELSE facadeEmit(M, name)

facadeStop(M, p) == facadeRequest(M, "stop", p)

facadeStatus(M, p) == facadeRequest(M, "status", p)

\* A client process calls DaemonizerServer.start(); p is the pid the OS
\* would give the child.
Start(p) ==
  /\ p \notin marker.alive
  /\ marker' = serverStart(marker, p)
  /\ UNCHANGED <<serverVars, client>>

EnsureRunning(p) ==
  /\ p \notin marker.alive
  /\ marker' = ensureRunning(marker, p)
  /\ UNCHANGED <<serverVars, client>>

FacadeFork(p) ==
  /\ p \notin marker.alive
  /\ marker' = facadeFork(marker, p)
  /\ UNCHANGED <<serverVars, client>>

FacadeStop(p) ==
  /\ p \notin marker.alive
  /\ marker' = facadeStop(marker, p)
  /\ UNCHANGED <<serverVars, client>>

FacadeStatus(p) ==
  /\ p \notin marker.alive
  /\ marker' = facadeStatus(marker, p)
  /\ UNCHANGED <<serverVars, client>>

\* The constructor runs in a process start() launched.
DaemonBoot(p) ==
  /\ p \in marker.booting \cap marker.alive
  /\ marker' = boot(marker, p)
  /\ UNCHANGED <<serverVars, client>>

NextStart ==
  \/ \E p \in Pids : Start(p)
  \/ \E p \in Pids : EnsureRunning(p)
  \/ \E p \in Pids : FacadeFork(p)
  \/ \E p \in Pids : FacadeStop(p)
  \/ \E p \in Pids : FacadeStatus(p)
  \/ \E p \in Pids : DaemonBoot(p)
  \/ \E p \in Pids : PidDies(p)

SpecStart == InitSingleton /\ [][NextStart]_vars

\* ------------------------------------------------------------- status

\* What pidInfo(pid) answers for a process that runs: cpu in percent, memory
\* in bytes, elapsed in milliseconds.
SampledMetrics == [cpu |-> 5, memory |-> 7, elapsed |-> 3000]

\* cpu.toFixed(1), filesize(memory) and elapsed / 1000 of whole numbers.
toFixed1(n) == <<n, ".0">>
filesize(n) == <<n, " B">>
toSeconds(ms) == ms \div 1000

\* The pid of toJSON(): the pid of the handle, '-!' for a handle without
\* one, '--' without a handle.
JsonPid(p) ==
  IF p.spawnChild = "null" THEN "--"
  ELSE IF p.spawnChild = "pid" THEN "pid" ELSE "-!"

\* One row of the table.
StatusEntry(p, metrics) ==
  [id |-> p.id, pid |-> JsonPid(p), stop |-> p.stop,
   cpu |-> toFixed1(metrics.cpu), memory |-> filesize(metrics.memory),
   elapsed |-> toSeconds(metrics.elapsed)]

\* The iteration of status({ id }) from position i of the registry on: a
\* record is passed over when an id is given and is not its id; pidInfo is
\* awaited for a record that has a pid, and the call rejects when pidInfo
\* does (samplerOk = FALSE).
\* (variant: the id is not looked at)
RECURSIVE statusFrom_noFilter(_, _, _, _, _)
statusFrom_noFilter(S, id, samplerOk, i, acc) ==
  IF i > Len(S.reg) THEN acc
  ELSE LET r == S.reg[i]
           p == S.rp[r]
       IN IF pid(p)
          THEN IF samplerOk
               THEN statusFrom_noFilter(S, id, samplerOk, i + 1,
                      [acc EXCEPT !.sampled = @ \cup {r},
                                  !.table = Append(@, StatusEntry(p, SampledMetrics))])
               ELSE [acc EXCEPT !.sampled = @ \cup {r}, !.rejected = TRUE,
                                !.table = <<>>]
          ELSE statusFrom_noFilter(S, id, samplerOk, i + 1,
                 [acc EXCEPT !.table = Append(@, StatusEntry(p,
                    [cpu |-> 0, memory |-> 0, elapsed |-> 0]))])

RECURSIVE statusFrom(_, _, _, _, _)
statusFrom(S, id, samplerOk, i, acc) ==
  IF i > Len(S.reg) THEN acc
  ELSE LET r == S.reg[i]
           p == S.rp[r]
       IN IF id # NoId /\ p.id # id
          THEN statusFrom(S, id, samplerOk, i + 1, acc)
          ELSE IF pid(p)
          THEN IF samplerOk
               THEN statusFrom(S, id, samplerOk, i + 1,
                      [acc EXCEPT !.sampled = @ \cup {r},
                                  !.table = Append(@, StatusEntry(p, SampledMetrics))])
               ELSE [acc EXCEPT !.sampled = @ \cup {r}, !.rejected = TRUE,
                                !.table = <<>>]
          ELSE statusFrom(S, id, samplerOk, i + 1,
                 [acc EXCEPT !.table = Append(@, StatusEntry(p,
                    [cpu |-> 0, memory |-> 0, elapsed |-> 0]))])

\* DaemonizerServer.status({ id })
status(S, id, samplerOk) ==
  [S EXCEPT !.rpc.status =
     statusFrom(S, id, samplerOk, 1,
                [NoStatus EXCEPT !.called = TRUE, !.id = id])]

\* status({ id }) is called; no event of the daemon is handled before it
\* has settled.
Status(id, samplerOk) == Commit(status(State, id, samplerOk))

\* No id, the id of a record and an id no record has.
StatusIds == {NoId} \cup Ids

\* Forks, exits of children and calls of status.
NextStatus ==
  \/ \E q \in ForkRequests, ok \in BOOLEAN : Fork(q, ok)
  \/ \E r \in DOMAIN rp : ChildDie(r)
  \/ \E r \in DOMAIN rp : ChildExitEvent(r)
  \/ \E id \in StatusIds, samplerOk \in BOOLEAN : Status(id, samplerOk)

SpecStatus == Init /\ [][NextStatus]_vars

\* ---------------------------------------------- the synchronous wait

\* runningProcessOptions of a request with ?wait: the options of the
\* request are replaced by { stdio: [pipes], autoRestart: false }.
WaitOptions == Opt(TRUE, FALSE, FALSE, 0)

\* router.post('/fork') with ?wait: fork, then wait for 'done' of the record
\* fork returned.
httpForkWait(S, q, ok) ==
  LET q1 == [q EXCEPT !.options = WaitOptions]
      r == forkReturn(S, q1)
      S1 == fork(S, q1, ok)
  IN [S1 EXCEPT !.rp[r].listeners = @ \cup {"done"},
                !.rpc.waits = @ \cup {[n |-> Cardinality(@) + 1, r |-> r,
                                       answered |-> FALSE]}]

HttpForkWait(q, ok) ==
  /\ Cardinality(rpc.waits) < MaxWaits
  /\ findProcessById(State, StrKey(q.id)) # 0 \/ Len(rp) < MaxRecords
  /\ Commit(httpForkWait(State, q, ok))

\* Forks with and without ?wait, exits of children, restarts and stops.
NextWait ==
  \/ \E q \in ForkRequests, ok \in BOOLEAN : HttpForkWait(q, ok)
  \/ \E q \in ForkRequests, ok \in BOOLEAN : Fork(q, ok)
  \/ \E r \in DOMAIN rp : ChildDie(r)
  \/ \E r \in DOMAIN rp : ChildExitEvent(r)
  \/ \E r \in DOMAIN rp, ok \in BOOLEAN : RestartTimer(r, ok)
  \/ \E r \in DOMAIN rp : RecordStop(r)
  \/ \E r \in DOMAIN rp : KillDone(r)

SpecWait == Init /\ [][NextWait]_vars

\* ------------------------------------------------------------ properties

\* The records of the registry, and whether an id is among their ids.
Registry == {runningProcesses[i] : i \in DOMAIN runningProcesses}

Registered(id) == \E r \in Registry : rp[r].id = id

\* list(): the ids of the snapshot.
ListIds == {rp[r].id : r \in Registry}

\* OS processes running for an id, over all records ever created, in state S.
RECURSIVE LiveOf(_, _, _)
LiveOf(procs, id, n) ==
  IF n = 0 THEN 0
  ELSE (IF procs[n].id = id THEN procs[n].live ELSE 0) + LiveOf(procs, id, n - 1)

\* C1: fork with an id that is in the registry returns the record registered
\* under that id and changes nothing: no spawn, same registry, and the
\* record keeps its command and options whatever the request carries.
C1_ForkExistingIsNoOp ==
  \A q \in ForkRequests, ok \in BOOLEAN :
    Registered(q.id) =>
      /\ fork(State, q, ok) = State
      /\ forkReturn(State, q) \in Registry
      /\ rp[forkReturn(State, q)].id = q.id

\* C1 witness: a record is registered under an id for which a request with
\* another command and other options exists.
C1_Witness ==
  \E q \in ForkRequests, r \in Registry :
    /\ rp[r].id = q.id
    /\ rp[r].spawnArgs # q.command
    /\ rp[r].options # AssignOptions(q.options)
    /\ rp[r].live = 1

\* C2: the registry never holds two records with one id, no record and no
\* id ever has two OS processes running, and two forks in a row with one
\* explicit id and different commands leave one process for the id, the
\* one of the first command.
C2_OneRecordOneProcessPerId ==
  /\ \A i, j \in DOMAIN runningProcesses :
       i # j => rp[runningProcesses[i]].id # rp[runningProcesses[j]].id
  /\ \A r \in DOMAIN rp : LiveOf(rp, rp[r].id, Len(rp)) <= 1
  /\ \A q1, q2 \in ForkRequests :
       (q1.id = q2.id /\ q1.id # NoId /\ q1.command # q2.command
          /\ ~Registered(q1.id)) =>
       LET S1 == fork(State, q1, TRUE)
           S2 == fork(S1, q2, TRUE)
           r == forkReturn(S1, q2)
       IN /\ LiveOf(S2.rp, q1.id, Len(S2.rp)) = 1
          /\ r = forkReturn(State, q1)
          /\ S2.rp[r].spawnArgs = q1.command
          /\ S2.reg = Append(runningProcesses, r)

\* C2 witness: an id is forked again after its first record left the
\* registry, and the second record runs its process.
C2_Witness ==
  \E r1, r2 \in DOMAIN rp :
    /\ r1 # r2
    /\ rp[r1].id = rp[r2].id
    /\ r1 \notin Registry
    /\ r2 \in Registry
    /\ rp[r2].live = 1

\* C3: with autoRestart and maximumAutoRestart = N >= 0 a record is never
\* restarted more than N times nor spawned more than N + 1 times, and once
\* N + 1 of its children have exited and no restart timer is left, it is
\* stopped.
C3_RestartBudget ==
  \A r \in DOMAIN rp :
    LET p == rp[r]
        N == p.options.maximumAutoRestart
    IN (p.options.autoRestart /\ p.options.hasMaximumAutoRestart /\ N >= 0) =>
         /\ p.restarts <= N
         /\ p.spawnCalls <= N + 1
         /\ (p.exits >= N + 1 /\ p.timers = 0) => p.stop

\* C3 witness: a record with N = 1 was restarted once, its second child
\* exited unasked and the budget check stopped it.
C3_Witness ==
  \E r \in DOMAIN rp :
    /\ rp[r].options.hasMaximumAutoRestart
    /\ rp[r].options.maximumAutoRestart = 1
    /\ rp[r].restarts = 1
    /\ rp[r].died = 2
    /\ rp[r].exits = 2
    /\ rp[r].timers = 0
    /\ rp[r].stop
    /\ rp[r].killRequests = 0

\* C4: a record created without maximumAutoRestart is restarted at most
\* DocumentedMaximumAutoRestart times, and is stopped once that many
\* restarts were followed by one more exit.
C4_DefaultBudget ==
  \A r \in DOMAIN rp :
    LET p == rp[r]
    IN (p.options.autoRestart /\ ~p.options.hasMaximumAutoRestart) =>
         /\ p.restarts <= DocumentedMaximumAutoRestart
         /\ (p.exits >= DocumentedMaximumAutoRestart + 1 /\ p.timers = 0)
              => p.stop

\* C5: once the stop flag of a record is set it stays set, and from then
\* on spawn is never called for the record and no process of it starts
\* running.
C5_StoppedIsTerminal ==
  [][\A r \in DOMAIN rp :
       rp[r].stop =>
         /\ rp'[r].stop
         /\ rp'[r].spawnCalls = rp[r].spawnCalls
         /\ rp'[r].live <= rp[r].live]_vars

\* C5 witness: a restart timer set before stop() fired after it: the
\* restart was counted and nothing was spawned.
C5_Witness ==
  \E r \in DOMAIN rp :
    /\ rp[r].stop
    /\ rp[r].timers = 0
    /\ rp[r].restarts >= 1
    /\ rp[r].spawnCalls = rp[r].restarts
    /\ rp[r].live = 0

\* C6: a record requests at most one tree kill and emits at most one
\* 'exit' over its life, both by the call of stop() that set the flag; on
\* a record whose flag is set, stop() changes nothing and returns a promise
\* that is already resolved.
C6_StopIdempotent ==
  \A r \in DOMAIN rp :
    /\ rp[r].killRequests <= 1
    /\ rp[r].exitEmitted <= 1
    /\ (rp[r].killRequests = 1 \/ rp[r].exitEmitted = 1) => rp[r].stop
    /\ rp[r].stop => /\ stop(State, r) = State
                      /\ ~StopSuspended(State, r)

\* C6 witness: the first stop() of a record awaits the kill while the child
\* has already died and while another record is stopped for good.
C6_Witness ==
  \E r1, r2 \in DOMAIN rp :
    /\ rp[r1].stop
    /\ rp[r1].kill = "pending"
    /\ rp[r1].os = "dead"
    /\ rp[r2].stop
    /\ rp[r2].exitEmitted = 1
    /\ rp[r2].os = "reaped"

\* C7: stop(id) for an id no registered record has throws
\* `Process <id> not found.` and leaves the registry and the records as
\* they are.
C7_StopUnknownIdFails ==
  \A id \in StopIds :
    ~Registered(id) =>
      /\ stopThrows(State, StrKey(id))
      /\ serverStop(State, StrKey(id)) = State
      /\ \A killOk \in BOOLEAN :
           ExecStopAnswer(State, StrKey(id), killOk) =
             Answer("error", 0, FALSE, <<"Process ", id, " not found.">>)

\* C7 witness: the id of a record that left the registry is asked for
\* while another record is registered.
C7_Witness ==
  \E r \in DOMAIN rp :
    /\ r \notin Registry
    /\ ~Registered(rp[r].id)
    /\ Registry # {}

\* C8: a stop request for a registered id is answered with the snapshot of
\* the record, its stop flag set, through the 'stop' message and through
\* the 'exec' message alike.
C8_StopAnswersSnapshot ==
  \A id \in StopIds :
    Registered(id) =>
      /\ SocketStopAnswer(State, StrKey(id)).kind = "snapshot"
      /\ SocketStopAnswer(State, StrKey(id)).stop
      /\ \A killOk \in BOOLEAN :
           /\ ExecStopAnswer(State, StrKey(id), killOk).kind = "snapshot"
           /\ ExecStopAnswer(State, StrKey(id), killOk).stop

\* C9: a record is spliced out of the registry at most once and onExit
\* runs at most once for it; it is out of the registry exactly when it
\* emitted 'exit', and then onExit ran, it was spliced out once and none
\* of the forwarding listeners is left on it.
C9_ExitCascade ==
  \A r \in DOMAIN rp :
    /\ rp[r].removed <= 1
    /\ rp[r].exitHandled <= 1
    /\ (r \notin Registry) <=> (rp[r].exitEmitted = 1)
    /\ rp[r].exitEmitted = 1 =>
         /\ rp[r].exitHandled = 1
         /\ rp[r].removed = 1
         /\ rp[r].listeners \cap ForwardingListeners = {}
    /\ rp[r].exitEmitted = 0 =>
         /\ rp[r].exitHandled = 0
         /\ rp[r].removed = 0
         /\ ForwardingListeners \subseteq rp[r].listeners

\* C9 witness: one record went through the cascade after a kill, the other
\* is still registered with its listeners.
C9_Witness ==
  \E r1, r2 \in DOMAIN rp :
    /\ rp[r1].removed = 1
    /\ rp[r1].kill = "resolved"
    /\ r1 \notin Registry
    /\ r2 \in Registry
    /\ rp[r2].listeners = ForwardingListeners

\* The id of record r is in list().
Listed(r) == r \in DOMAIN rp /\ rp[r].id \in ListIds

\* The OS process of record r, forked with autoRestart false, has terminated.
ExitedWithoutAutoRestart(r) ==
  r \in DOMAIN rp /\ ~rp[r].options.autoRestart /\ rp[r].os = "dead"

\* C10: once the OS process of a record with autoRestart false has
\* terminated, the id of the record eventually is not in list().
C10_NoRestartLeavesList ==
  \A r \in 1..MaxRecords : [](ExitedWithoutAutoRestart(r) => <>~Listed(r))

\* C11: the daemon exits only by a grace timer that fires while the
\* registry is empty and only with config.autoClose; a grace timer that
\* fires while a record is registered leaves the daemon running.
C11_AutoCloseOnlyWhenEmpty ==
  /\ [](exited => (config.autoClose /\ runningProcesses = <<>>))
  /\ [][((exited' /\ ~exited) =>
           (config.autoClose /\ runningProcesses = <<>>
              /\ closeChecks' = closeChecks + 1))
        /\ ((closeChecks' = closeChecks + 1 /\ runningProcesses # <<>>) =>
             ~exited')]_vars

\* C11 witness: a grace timer fired during a fork's life and left the daemon
\* running; a later one ended it.
C11_Witness ==
  /\ exited
  /\ closeChecks >= 2
  /\ Len(rp) >= 2

\* The request of the last 'exec' handler, as it arrived.
LastRaw == RawRequests[rpc.last.raw]

\* The res-<id> notifications the last handler sent to the socket of its
\* request.
LastAnswers ==
  {k \in DOMAIN rpc.emitted :
     /\ rpc.emitted[k].event = "res"
     /\ rpc.emitted[k].socket = rpc.last.socket}

\* C12: a request whose method begins with an underscore, or is no member
\* of the supervisor, makes the 'exec' handler call no method and leaves
\* the records, the registry, the grace timers, the progress listeners and
\* the suspended handlers as they are.
C12_PrivateOrMissingNeverRuns ==
  \A socket \in Sockets, i \in DOMAIN RawRequests :
    LET raw == RawRequests[i]
        S2 == exec(State, socket, i, TRUE)
    IN (/\ raw.hasMethod
        /\ \/ StartsWithUnderscore(raw.method)
           \/ raw.method \notin {ForkMethod, StopMethod, ListMethod,
                                 ConfigMember, CustomMethod}
           \/ (raw.method = CustomMethod /\ rpc.customMethod = "absent")) =>
         /\ S2.rpc.invoked = <<>>
         /\ S2.rp = rp
         /\ S2.reg = runningProcesses
         /\ S2.closeTimers = closeTimers
         /\ S2.exited = exited
         /\ S2.rpc.subs = rpc.subs
         /\ S2.rpc.pending = rpc.pending

\* C12 witness: _exit was asked for on the envelope while a record was
\* registered.
C12_Witness ==
  /\ rpc.last.raw # 0
  /\ LastRaw.method = ExitMethod
  /\ rpc.last.outcome = "rejected"
  /\ Registered("a")

\* C13: an 'exec' handler that is not suspended has sent exactly one
\* res-<id> to the socket of its request.
C13_EveryRequestAnswered ==
  rpc.last.outcome \in {"rejected", "answered"} => Cardinality(LastAnswers) = 1

\* C14: for a request that names a public method of the supervisor the
\* handler called that method once with the payload as its arguments, and,
\* unless it is suspended, sent one res-<id> that settles the call of the
\* client as the method ended: resolved with its result, or rejected with
\* its message.
C14_PublicMethodInvokedOnce ==
  (/\ rpc.last.raw # 0
   /\ LastRaw.hasMethod
   /\ ~StartsWithUnderscore(LastRaw.method)
   /\ Member(State, LastRaw.method) = "function") =>
    /\ Len(rpc.invoked) = 1
    /\ rpc.invoked[1].method = LastRaw.method
    /\ Len(rpc.invoked[1].args) = Len(parse(LastRaw, 1).payload)
    /\ LastRaw.method # ForkMethod =>
         rpc.invoked[1].args = parse(LastRaw, 1).payload
    /\ rpc.last.outcome # "pending" =>
         /\ Cardinality(LastAnswers) = 1
         /\ \A k \in LastAnswers :
              LET body == rpc.emitted[k].body
              IN /\ rpc.emitted[k].id = rpc.last.id
                 /\ body.hasError =>
                      settle(body) = [state |-> "rejected", value |-> body.error]
                 /\ ~body.hasError =>
                      settle(body) = [state |-> "resolved", value |-> body.result]

\* C15: a progress listener is on the supervisor only while the request
\* that added it is being handled: between handlers, every listener belongs
\* to a request whose handler is suspended.
C15_NoProgressSubscriptionLeft ==
  \A k \in DOMAIN rpc.subs :
    \E w \in rpc.pending : w.id = rpc.subs[k].request

Calls == DOMAIN client.calls

Settled(k) == client.calls[k].state # "pending"

TimedOutCall(k) ==
  /\ client.calls[k].state = "rejected"
  /\ client.calls[k].by = <<>>
  /\ client.calls[k].value = TimedOut

\* The responses that arrived for call k and found no listener.
DroppedFor(k) == {n \in client.dropped : n.id = client.calls[k].id}

\* The timer of some call fires in this step.
TimerFires(k) ==
  /\ k \in Calls
  /\ client.calls[k].timer
  /\ client.toClient' = client.toClient
  /\ client.calls'[k].settles # client.calls[k].settles

\* The first notification on the channel arrives in this step.
ResponseArrives ==
  /\ client.toClient # <<>>
  /\ client.toClient' = Tail(client.toClient)

C17_SettledOnce(k) ==
  LET call == client.calls[k]
  IN /\ call.settles <= 1
     /\ call.state = "pending" =>
          (call.settles = 0 /\ call.listener /\ call.timer)
     /\ call.state # "pending" =>
          (call.settles = 1 /\ ~call.listener /\ ~call.timer)
     /\ call.state = "resolved" =>
          /\ Len(call.by) = 1
          /\ call.by[1].id = call.id
          /\ call.value = call.by[1].body.result
     /\ call.state = "rejected" =>
          \/ /\ Len(call.by) = 1
             /\ call.by[1].id = call.id
             /\ call.by[1].body.hasError
             /\ call.value = call.by[1].body.error
          \/ TimedOutCall(k)

\* C17: every call of the client settles exactly once: resolve or reject is
\* called once for it, with the result or the error of the response that
\* carries its request id, or with `Timed out` when the timer fired before
\* such a response arrived; a settled call has neither its listener nor its
\* timer left; and no call stays pending for ever: again and again every
\* call made so far is settled.
C17_CallSettlesOnce ==
  /\ [](\A k \in Calls : C17_SettledOnce(k))
  /\ []<>(\A k \in Calls : Settled(k))

\* One call was rejected with the error of its response and another timed
\* out; the response that came for the latter was dropped.
C17_Witness ==
  \E j \in Calls, k \in Calls :
    /\ client.calls[j].state = "rejected" /\ client.calls[j].by # <<>>
    /\ client.calls[j].settles = 1
    /\ TimedOutCall(k) /\ ~client.calls[k].listener
    /\ DroppedFor(k) # {}

\* A response to call k is on its way to the client.
OnChannel(k) ==
  \E i \in DOMAIN client.toClient : client.toClient[i].id = client.calls[k].id

\* C18: with several calls in flight the ids of their requests differ, an
\* arriving response changes no call but the one whose request id it
\* carries, and a call settled by a response was settled by the response
\* carrying its own id.
C18_SettledByOwnResponse ==
  /\ [](\A j \in Calls, k \in Calls :
          /\ (j # k) => client.calls[j].id # client.calls[k].id
          /\ client.calls[k].by # <<>> =>
               client.calls[k].by[1].id = client.calls[k].id)
  /\ [][ResponseArrives =>
          \A k \in Calls :
            (client.calls'[k] # client.calls[k]) =>
              client.calls[k].id = Head(client.toClient).id]_vars

\* A later call was settled by its response while an earlier one is still
\* pending with its response on the channel: the responses came in another
\* order than the requests.
C18_Witness ==
  \E j \in Calls, k \in Calls :
    /\ j < k
    /\ client.calls[j].state = "pending"
    /\ OnChannel(j)
    /\ client.calls[k].by # <<>>
    /\ client.calls[k].by[1].id = client.calls[k].id

\* The handler of the request of call k is suspended at the daemon.
InFlightAtDaemon(k) == \E w \in rpc.pending : w.id = client.calls[k].id

\* C19: the timer of a call firing changes nothing at the daemon and sends
\* nothing; a response arriving for a timed-out call runs no listener and
\* changes no call; a fork or stop whose answer was dropped did take effect;
\* and the handler of a timed-out call does not stay suspended at the
\* daemon, nor its answer on the channel: again and again no timed-out call
\* has either.
C19_TimeoutIsClientLocal ==
  /\ [][(\E k \in Calls : TimerFires(k)) =>
          (UNCHANGED serverVars /\ client.toServer' = client.toServer)]_vars
  /\ [][(ResponseArrives /\ \E k \in Calls :
             TimedOutCall(k) /\ client.calls[k].id = Head(client.toClient).id) =>
          /\ client.calls' = client.calls
          /\ client.dropped' = client.dropped \cup {Head(client.toClient)}]_vars
  /\ [](\A k \in Calls : \A n \in DroppedFor(k) :
          /\ TimedOutCall(k)
          /\ (~n.body.hasError
                /\ ClientCalls[client.calls[k].call].method = ForkMethod) =>
               \E r \in DOMAIN rp : rp[r].id = "a"
          /\ (~n.body.hasError
                /\ ClientCalls[client.calls[k].call].method = StopMethod) =>
               \E r \in DOMAIN rp : rp[r].id = "a" /\ rp[r].stop)
  /\ []<>(\A k \in Calls :
            TimedOutCall(k) => (~InFlightAtDaemon(k) /\ ~OnChannel(k)))

\* A stop timed out at the client; the record was stopped all the same and
\* the answer was dropped, and the fork before it stays resolved with its
\* own response.
C19_Witness ==
  \E j \in Calls, k \in Calls :
    /\ ClientCalls[client.calls[k].call].method = StopMethod
    /\ TimedOutCall(k)
    /\ \E n \in DroppedFor(k) : ~n.body.hasError
    /\ \E r \in DOMAIN rp : rp[r].stop /\ rp[r].kill = "resolved"
    /\ j < k
    /\ client.calls[j].state = "resolved"
    /\ client.calls[j].by[1].id = client.calls[j].id

\* --------------------------------------------------- singleton properties

\* isRunning is called in this step.
Probing == marker.probes' = marker.probes + 1

\* C20: a call of isRunning returns the pid of the marker when the marker
\* exists and that process is alive, and nothing (without throwing) when
\* there is no marker or the process of its pid is dead; the call leaves the
\* marker as it was.
C20_IsRunningReportsLivePid ==
  [][Probing =>
       /\ (marker.file # NoPid /\ marker.file \in marker.alive) =>
            marker.returned' = marker.file
       /\ (marker.file = NoPid \/ marker.file \notin marker.alive) =>
            marker.returned' = NoPid
       /\ ~marker.raised'
       /\ marker.file' = marker.file
       /\ marker.alive' = marker.alive]_vars

\* isRunning was called with a stale marker in place, returned nothing and
\* the marker is still there.
C20_Witness ==
  /\ marker.probes > 0
  /\ marker.stale
  /\ marker.returned = NoPid
  /\ ~marker.raised
  /\ marker.file # NoPid

\* ------------------------------------------------------- start properties

\* What isRunning reports in the state a step starts from.
LiveDaemonPid ==
  IF marker.file # NoPid /\ marker.file \in marker.alive
  THEN marker.file ELSE NoPid

\* The step is a call of the operation `name`.
Calling(name) == marker.op' # marker.op /\ marker.op'.name = name

\* The step launches nothing and leaves the marker alone.
NothingLaunched ==
  /\ marker.alive' = marker.alive
  /\ marker.booting' = marker.booting
  /\ marker.daemons' = marker.daemons
  /\ marker.file' = marker.file

\* The step launches exactly one process, which has not booted.
OneLaunched(p) ==
  /\ p \notin marker.alive
  /\ marker.alive' = marker.alive \cup {p}
  /\ marker.booting' = marker.booting \cup {p}
  /\ p \notin marker.daemons'
  /\ marker.file' = marker.file

\* C21: a call of start throws the AlreadyRunning error with the pid
\* isRunning reports and launches nothing when isRunning reports a live
\* daemon; otherwise it launches one process, whose constructor has not run
\* when start returns, and returns its pid.
C21_StartFailsFastOrLaunches ==
  [][Calling("start") =>
       /\ marker.op'.detected = LiveDaemonPid
       /\ LiveDaemonPid # NoPid =>
            /\ marker.op'.threw = AlreadyRunningMessage(LiveDaemonPid)
            /\ marker.op'.value = NoPid
            /\ NothingLaunched
       /\ LiveDaemonPid = NoPid =>
            /\ marker.op'.threw = <<>>
            /\ marker.op'.value # NoPid
            /\ marker.op'.did = << <<"spawn", marker.op'.value, "">> >>
            /\ OneLaunched(marker.op'.value)]_vars

\* start was refused because of the live daemon the marker names.
C21_Witness ==
  /\ marker.op.name = "start"
  /\ marker.op.threw # <<>>
  /\ marker.op.detected = marker.file
  /\ marker.op.detected \in marker.daemons \cap marker.alive

LiveDaemons == marker.daemons \cap marker.alive

\* C22: at most one process in which the constructor of a daemon has run is
\* alive.
C22_AtMostOneLiveDaemon == Cardinality(LiveDaemons) <= 1

\* C23: Daemonizer.fork launches a daemon and then emits its request when
\* isRunning reports none, and only emits the request when it reports one;
\* Daemonizer.stop and Daemonizer.status throw the not-running error, emit
\* nothing and launch nothing when isRunning reports none; ensureRunning
\* launches a daemon only when isRunning reports none.
C23_FacadeForkStartsStopFails ==
  [][/\ Calling("fork") =>
          /\ marker.op'.detected = LiveDaemonPid
          /\ marker.op'.threw = <<>>
          /\ LiveDaemonPid = NoPid =>
               /\ Len(marker.op'.did) = 2
               /\ marker.op'.did[1][1] = "spawn"
               /\ marker.op'.did[2] = <<"emit", NoPid, "start">>
               /\ OneLaunched(marker.op'.did[1][2])
          /\ LiveDaemonPid # NoPid =>
               /\ marker.op'.did = << <<"emit", NoPid, "start">> >>
               /\ NothingLaunched
     /\ (Calling("stop") \/ Calling("status")) =>
          /\ marker.op'.detected = LiveDaemonPid
          /\ LiveDaemonPid = NoPid =>
               /\ marker.op'.threw = NotRunningMessage
               /\ marker.op'.did = <<>>
               /\ NothingLaunched
          /\ LiveDaemonPid # NoPid =>
               /\ marker.op'.threw = <<>>
               /\ marker.op'.did = << <<"emit", NoPid, marker.op'.name>> >>
               /\ NothingLaunched
     /\ Calling("ensureRunning") =>
          /\ LiveDaemonPid # NoPid => NothingLaunched
          /\ LiveDaemonPid = NoPid => OneLaunched(marker.op'.value)]_vars

\* fork of the facade found no daemon, launched one and emitted its request;
\* the daemon has booted since.
C23_Witness ==
  /\ marker.op.name = "fork"
  /\ Len(marker.op.did) = 2
  /\ marker.op.did[1][2] \in LiveDaemons
  /\ marker.file = marker.op.did[1][2]

\* ------------------------------------------------------ status properties

\* The registered records status(id) is about, in the order of the registry.
Matching(id) ==
  SelectSeq(runningProcesses, LAMBDA r : id = NoId \/ rp[r].id = id)

\* Row i of the table is the row of record r.
RowOf(table, i, r) ==
  /\ table[i].id = rp[r].id
  /\ table[i].pid = JsonPid(rp[r])
  /\ ~pid(rp[r]) =>
       /\ table[i].cpu = toFixed1(0)
       /\ table[i].memory = filesize(0)
       /\ table[i].elapsed = 0

Forking == Len(rp') = Len(rp) + 1

\* The ids of the registered records, before the step.
UsedIds == {rp[r].id : r \in Registry}

\* C25: a fork of an unused id, or without id, leaves in the same step a
\* new record that is the last of the registry, whose id is the id asked for
\* or a generated one that no registered record had, that is not stopped,
\* and that has a handle, with a pid and a running process unless the
\* launch failed; and a record is stopped only once stop() was called on it.
C25_ForkRegistersLiveRecord ==
  /\ [][Forking =>
          LET n == Len(rp')
              new == rp'[n]
          IN /\ runningProcesses' = Append(runningProcesses, n)
             /\ new.id # NoId
             /\ new.id \notin UsedIds
             /\ new.id \in Ids \/ new.id = uuid(n)
             /\ ~new.stop /\ ~new.stopCalled
             /\ new.spawnChild \in {"pid", "nopid"}
             /\ new.spawnChild = "pid" =>
                  (pid(new) /\ new.os = "alive" /\ new.live = 1)]_vars
  /\ [](\A r \in DOMAIN rp : rp[r].stop => rp[r].stopCalled)

\* A record forked without id runs under its generated id, registered and
\* not stopped, after its child exited once and was restarted.
C25_Witness ==
  \E r \in Registry :
    /\ rp[r].id = uuid(r)
    /\ pid(rp[r]) /\ rp[r].os = "alive"
    /\ ~rp[r].stop
    /\ rp[r].restarts = 1

\* -------------------------------------------------- terminal-state properties

\* Record r, which was launched, has reached its end: it is stopped, stop()
\* has run to its end, no process of it runs and the 'exit' of its last
\* child has been handled.
Terminal(r) ==
  /\ rp[r].stop
  /\ rp[r].exitEmitted > 0
  /\ rp[r].os = "reaped"
  /\ rp[r].live = 0

\* C26: a synchronous-wait fork request whose record has reached its end has
\* been answered.
C26_WaitAnsweredAtTerminal ==
  \A w \in rpc.waits : Terminal(w.r) => w.answered

\* C27: a record that has reached its end has emitted 'done'.
C27_DoneWhenStopped ==
  \A r \in DOMAIN rp : Terminal(r) => rp[r].doneEmitted > 0

\* The record the last 'exec' request asked to stop (0 when there is none).
LastStopped ==
  IF rpc.last.raw # 0 /\ LastRaw.hasMethod /\ LastRaw.method = StopMethod
  THEN findProcessById(State, StrKey(LastRaw.payload[1]))
  ELSE 0

\* C28: a stop request that was answered with a result was not answered
\* while the process of the record it named was still alive.
C28_StopResolvesAfterKill ==
  (/\ LastStopped # 0
   /\ rpc.last.outcome = "answered"
   /\ \E k \in LastAnswers : ~rpc.emitted[k].body.hasError) =>
    rp[LastStopped].os # "alive"

\* C29: a record holds a handle exactly when its process is running.
C29_HandleIffRunning ==
  \A r \in DOMAIN rp : (rp[r].spawnChild # "null") <=> (rp[r].os = "alive")

\* The child of record r exited unasked, the record restarts on its own and
\* its budget is not used up: the restart timer is set.
AwaitingRestart(r) ==
  /\ r \in DOMAIN rp
  /\ rp[r].timers > 0
  /\ ~rp[r].stop
  /\ rp[r].options.autoRestart
  /\ ~BudgetExhausted(rp[r])

\* C30: while the restart timer of a record with autoRestart and a budget
\* left (or no budget, or a negative one) is set, the record is registered
\* and has neither handle nor process; a record is spawned again in no step
\* but the one in which its timer fires, that step spawns it when it was
\* not stopped, and the timer fires or the record is stopped in the end.
C30_RestartAfterDelay ==
  /\ [](\A r \in DOMAIN rp : AwaitingRestart(r) =>
          /\ r \in Registry
          /\ rp[r].spawnChild = "null"
          /\ rp[r].live = 0
          /\ rp[r].timers = 1)
  /\ [][\A r \in DOMAIN rp :
          /\ rp'[r].spawnCalls > rp[r].spawnCalls =>
               (rp[r].timers > 0 /\ rp'[r].timers = rp[r].timers - 1)
          /\ (AwaitingRestart(r) /\ rp'[r].timers < rp[r].timers) =>
               /\ rp'[r].spawnCalls = rp[r].spawnCalls + 1
               /\ rp'[r].restarts = rp[r].restarts + 1
               /\ rp'[r].spawnChild # "null"
               /\ r \in {runningProcesses'[i] : i \in DOMAIN runningProcesses'}]_vars
  /\ \A r \in 1..MaxRecords : []<>(~AwaitingRestart(r))

\* C30 witness: a record with a negative budget was restarted twice, each
\* time by its timer, and runs.
C30_Witness ==
  \E r \in DOMAIN rp :
    /\ rp[r].options.hasMaximumAutoRestart
    /\ rp[r].options.maximumAutoRestart < 0
    /\ rp[r].restarts = 2
    /\ rp[r].exits = 2
    /\ rp[r].spawnCalls = 3
    /\ rp[r].os = "alive"
    /\ ~rp[r].stop

\* ------------------------------------------- the facade's calls in flight

\* Daemonizer.fork, stop and status emit 'start', 'stop' and 'status' and
\* wait, with once, for 'started', 'stopped' and 'status'.
FacadeKinds == {"fork", "stop", "status"}

RequestEvent(kind) ==
  IF kind = "fork" THEN "start" ELSE IF kind = "stop" THEN "stop" ELSE "status"

ReplyEvent(kind) ==
  IF kind = "fork" THEN "started" ELSE IF kind = "stop" THEN "stopped"
  ELSE "status"

TimedOutMessage == <<"Timed out.">>

\* new Promise(...) of a facade method: this.io.once(reply, this._resolver(
\* resolve, reject)) sets the listener and the timer, this.io.emit sends the
\* request.  `by` is the call whose request the settling reply answered.
facadeCall(C, kind, id) ==
  LET k == Len(C.facade.calls) + 1
  IN [C EXCEPT
       !.facade.calls = Append(@, [kind |-> kind, id |-> id, state |-> "pending",
                                   value |-> <<>>, listener |-> TRUE,
                                   timer |-> TRUE, by |-> 0]),
       !.facade.toServer = Append(@, [event |-> RequestEvent(kind), id |-> id,
                                      call |-> k])]

\* The reply of the daemon to an event of the facade's socket: 'started'
\* with the snapshot of the record fork returned, 'stopped' with what the
\* 'stop' handler sends for the payload { id }; 'status' has no handler.
FacadeReply(event, hasErr, body, call) ==
  [event |-> event, hasErr |-> hasErr, body |-> body, call |-> call]

StartPayload(id) == [id |-> id, command |-> "c1", options |-> NoOptions]

onSocketStart(S, msg, ok) == fork(S, StartPayload(msg.id), ok)

socketReplies(S, msg, ok) ==
  IF msg.event = "start"
  THEN <<FacadeReply("started", FALSE,
                     Snapshot(onSocketStart(S, msg, ok),
                              forkReturn(S, StartPayload(msg.id))), msg.call)>>
  ELSE IF msg.event = "stop"
  THEN LET answer == SocketStopAnswer(S, ObjKey(msg.id))
       IN <<FacadeReply("stopped", answer.kind = "error",
                        IF answer.kind = "error" THEN answer.err
                        ELSE Snapshot(S, answer.rid), msg.call)>>
  ELSE <<>>

onSocketEvent(S, msg, ok) ==
  IF msg.event = "start" THEN onSocketStart(S, msg, ok)
  ELSE IF msg.event = "stop" THEN serverStop(S, ObjKey(msg.id))
  ELSE S

\* The listener _resolver returns: clearTimeout, then reject(new Error(err))
\* or resolve(res).  A promise that is settled stays as it is.
resolverListener(call, reply) ==
  LET heard == [call EXCEPT !.listener = FALSE, !.timer = FALSE]
  IN IF call.state # "pending" THEN heard
     ELSE [heard EXCEPT
             !.state = IF reply.hasErr THEN "rejected" ELSE "resolved",
             !.value = reply.body,
             !.by = reply.call]

\* An event arrives on the facade's socket: every once-listener of the event
\* runs and is removed.
facadeHears(call, k, reply) ==
  call.listener /\ ReplyEvent(call.kind) = reply.event

onFacadeReply(C, reply) ==
  [C EXCEPT !.facade.toClient = Tail(@),
            !.facade.calls =
              [k \in DOMAIN @ |->
                 IF facadeHears(@[k], k, reply)
                 THEN resolverListener(@[k], reply) ELSE @[k]]]

\* The timer of _resolver fires: reject(new Error('Timed out.')).
onFacadeTimeout(C, k) ==
  [C EXCEPT !.facade.calls[k] =
     [@ EXCEPT !.timer = FALSE,
               !.state = IF @ = "pending" THEN "rejected" ELSE @,
               !.value = IF C.facade.calls[k].state = "pending"
                         THEN TimedOutMessage ELSE @]]

FacadeCallIds == {"a", "ghost"}

FacadeCall(kind, id) ==
  /\ ~exited
  /\ Len(client.facade.calls) < MaxFacadeCalls
  /\ client' = facadeCall(client, kind, id)
  /\ UNCHANGED <<serverVars, marker>>

FacadeServe(ok) ==
  /\ client.facade.toServer # <<>>
  /\ LET msg == Head(client.facade.toServer)
     IN /\ (msg.event # "start" \/ Len(rp) < MaxRecords
              \/ findProcessById(State, StrKey(msg.id)) # 0)
        /\ CommitServer(onSocketEvent(State, msg, ok))
        /\ client' = [client EXCEPT
                        !.facade.toServer = Tail(@),
                        !.facade.toClient = @ \o socketReplies(State, msg, ok)]
  /\ UNCHANGED marker

FacadeReplyArrives ==
  /\ client.facade.toClient # <<>>
  /\ client' = onFacadeReply(client, Head(client.facade.toClient))
  /\ UNCHANGED <<serverVars, marker>>

FacadeTimeout(k) ==
  /\ k \in DOMAIN client.facade.calls
  /\ client.facade.calls[k].timer
  /\ client' = onFacadeTimeout(client, k)
  /\ UNCHANGED <<serverVars, marker>>

NextFacade ==
  \/ \E kind \in FacadeKinds, id \in FacadeCallIds : FacadeCall(kind, id)
  \/ \E ok \in BOOLEAN : FacadeServe(ok)
  \/ FacadeReplyArrives
  \/ \E k \in 1..MaxFacadeCalls : FacadeTimeout(k)

SpecFacade == Init /\ [][NextFacade]_vars

\* The launch of record r failed: spawn returned a child without pid.
LaunchFailed(r) == r \in DOMAIN rp /\ rp[r].spawnChild = "nopid"

\* This step made a launch for record r that failed.
LaunchFails(r) ==
  /\ r \in DOMAIN rp'
  /\ rp'[r].spawnChild = "nopid"
  /\ rp'[r].spawnCalls > (IF r \in DOMAIN rp THEN rp[r].spawnCalls ELSE 0)

\* C31: a record whose launch failed has no restart timer; while it keeps
\* the failed child it is not spawned again, its restart count stays and
\* no 'exit' of a child is handled for it; and the step in which a launch
\* fails leaves the daemon running, every other record as it was and
\* every other record registered as before.
C31_SpawnFailureNoRestart ==
  /\ [](\A r \in DOMAIN rp : LaunchFailed(r) =>
          (rp[r].timers = 0 /\ rp[r].live = 0 /\ rp[r].os # "dead"))
  /\ [][\A r \in DOMAIN rp : LaunchFailed(r) =>
          /\ rp'[r].restarts = rp[r].restarts
          /\ rp'[r].spawnCalls = rp[r].spawnCalls
          /\ rp'[r].exits = rp[r].exits
          /\ rp'[r].timers = 0]_vars
  /\ [][\A r \in DOMAIN rp' : LaunchFails(r) =>
          /\ exited' = exited
          /\ r \notin DOMAIN rp => rp'[r].restarts = 0
          /\ \A o \in DOMAIN rp : o # r =>
               /\ rp'[o] = rp[o]
               /\ (o \in {runningProcesses'[i] : i \in DOMAIN runningProcesses'})
                    <=> (o \in Registry)]_vars

\* C31 witness: the respawn of a record that was restarted once failed while
\* another record runs.
C31_Witness ==
  \E r, o \in DOMAIN rp :
    /\ o # r
    /\ LaunchFailed(r)
    /\ rp[r].restarts = 1
    /\ rp[r].spawnCalls = 2
    /\ ~rp[r].stop
    /\ rp[o].os = "alive"

\* The progress-<id> notifications the last handler sent.
ProgressSent ==
  {k \in DOMAIN rpc.emitted : rpc.emitted[k].event = "progress"}

C36_ChunkDeliveredOnce ==
  \A k, l \in ProgressSent :
    rpc.emitted[k].socket = rpc.emitted[l].socket => k = l

\* C33: spawn was called for a record once more than the record counts
\* restarts.
C33_SpawnsAreRestartsPlusOne ==
  \A r \in DOMAIN rp : rp[r].spawnCalls = rp[r].restarts + 1

\* Record r is stopped and in the registry.
StoppedInRegistry(r) == r \in DOMAIN rp /\ rp[r].stop /\ r \in Registry

\* C34: a registered record that is stopped leaves the registry in the end.
C34_StoppedEventuallyRemoved ==
  \A r \in 1..MaxRecords : [](StoppedInRegistry(r) => <>(~StoppedInRegistry(r)))

\* The records of the registry after the step.
RegistryAfter == {runningProcesses'[i] : i \in DOMAIN runningProcesses'}

\* C35: a step changes one record at most, and leaves every other record
\* in or out of the registry as it was; stop(id) changes no record but one
\* whose id is the one asked for.
C35_OtherRecordsUntouched ==
  /\ [][\A r \in DOMAIN rp' :
          (r \notin DOMAIN rp \/ rp'[r] # rp[r]
             \/ ((r \in RegistryAfter) # (r \in Registry))) =>
            \A o \in DOMAIN rp : o # r =>
              /\ rp'[o] = rp[o]
              /\ (o \in RegistryAfter) <=> (o \in Registry)]_vars
  /\ [](\A id \in StopIds :
          LET S2 == serverStop(State, StrKey(id))
          IN \A o \in DOMAIN rp : rp[o].id # id =>
               /\ S2.rp[o] = rp[o]
               /\ (o \in {S2.reg[i] : i \in DOMAIN S2.reg}) <=> (o \in Registry))

\* C35 witness: of two records the one registered later was stopped, has
\* exited and was removed, and the other one is registered and runs, never
\* restarted.
C35_Witness ==
  \E r, o \in DOMAIN rp :
    /\ o < r
    /\ rp[r].id # rp[o].id
    /\ rp[r].stop
    /\ rp[r].removed = 1
    /\ r \notin Registry
    /\ o \in Registry
    /\ rp[o].os = "alive"
    /\ rp[o].restarts = 0
    /\ ~rp[o].stop

\* C37: of two facade calls of one kind, a call settled by a reply was
\* settled by the reply to its own request, and a call that timed out has
\* no listener left.
C37_FacadeSettledByOwnReply ==
  \A j, k \in DOMAIN client.facade.calls :
    LET call == client.facade.calls[k]
    IN (j # k /\ client.facade.calls[j].kind = call.kind) =>
         /\ (call.state # "pending" /\ call.by # 0) => call.by = k
         /\ (call.state = "rejected" /\ call.by = 0) => ~call.listener

\* C38: when the daemon has exited, no grace timer set later than the one
\* that ended it is pending: the registry was empty from the moment the
\* timer that fired was set.
C38_WholeGraceWindow == exited => closeTimers = 0

\* C39: the last 'exec' handler, when its request had no method, called no
\* method of the supervisor and ended rejected; when its request had no id
\* and passed _exec, worked under the id generated for it; and when its
\* request named a public method and had no payload, called that method
\* with no argument.
C39_RequestValidation ==
  rpc.last.raw # 0 =>
    /\ ~LastRaw.hasMethod =>
         (rpc.last.outcome = "rejected" /\ rpc.invoked = <<>>)
    /\ (LastRaw.id = NoId /\ ~_execThrows(State, LastRaw)) =>
         /\ rpc.last.id = RequestUuid(rpc.requests)
         /\ \A j \in DOMAIN RawRequests : RawRequests[j].id # rpc.last.id
    /\ (/\ LastRaw.hasMethod
        /\ ~LastRaw.hasPayload
        /\ ~StartsWithUnderscore(LastRaw.method)
        /\ Member(State, LastRaw.method) = "function") =>
         rpc.invoked = <<[method |-> LastRaw.method, args |-> <<>>]>>
====
